---- MODULE Spec2Model ----
(***************************************************************************)
(* Gemini-Notebook: the hierarchical tree model of App.tsx (areas, stacks, *)
(* notebooks, notes), its persistence and auto-sync effects, and the       *)
(* sanitizeFilename export helper of utils/markdown.ts.                    *)
(***************************************************************************)
EXTENDS Integers, Sequences, FiniteSets, TLC

\* ------------------------------------------------------------------------
\* Bounds of the model
\* ------------------------------------------------------------------------
MaxClock == 1

MaxNodes == 6

MaxNotes == 4

MaxOps == 2

\* ------------------------------------------------------------------------
\* Data: Note and Node records (types.ts)
\* ------------------------------------------------------------------------
\* selectedNoteId === null
Null == "<null>"

\* An id that names no node and no note: a stale reference
StaleId == "stale-id"

\* Note = { id, title, description, date, content }
Note(id, title, description, date, content) ==
    [id |-> id, title |-> title, description |-> description,
     date |-> date, content |-> content]

\* Node = { id, name, type, children?, noteIds? }; the two optional fields
\* carry a presence flag (an empty array is present and truthy in JS)
Node(id, name, type, hasChildren, children, hasNoteIds, noteIds) ==
    [id |-> id, name |-> name, type |-> type,
     hasChildren |-> hasChildren, children |-> children,
     hasNoteIds |-> hasNoteIds, noteIds |-> noteIds]

ALL_NOTES_INITIAL ==
    << Note("heart-failure", "Heart Failure", "The leading cause...", "May 15",
            "<h1>Insuficiencia Cardiaca</h1>"),
       Note("hypertension-note", "Hypertension Note", "2023 - A 64-year-old...",
            "Dec 28, 2024", "<h1>Hypertension</h1>") >>

AREAS_INITIAL ==
    << Node("medicina", "Medicine", "area", TRUE,
         << Node("anatomia-stack", "Anatomy", "stack", TRUE,
              << Node("anatomia-basica", "Basic Anatomy", "notebook",
                      FALSE, <<>>, TRUE, <<"heart-failure">>),
                 Node("anatomia-avancada", "Advanced Anatomy", "notebook",
                      FALSE, <<>>, TRUE, <<"hypertension-note">>) >>,
              FALSE, <<>>) >>,
         FALSE, <<>>) >>

\* ------------------------------------------------------------------------
\* Sequence helpers (Array.prototype.filter / includes / map)
\* ------------------------------------------------------------------------
Range(s) == {s[i] : i \in 1..Len(s)}

Includes(s, x) == \E i \in 1..Len(s) : s[i] = x

RECURSIVE FilterOut(_, _)
\* ids.filter(id => !drop.includes(id))
FilterOut(s, drop) ==
    IF s = <<>> THEN <<>>
    ELSE IF Head(s) \in drop THEN FilterOut(Tail(s), drop)
    ELSE <<Head(s)>> \o FilterOut(Tail(s), drop)

RECURSIVE FilterNotes(_, _)
\* notes.filter(note => !drop.includes(note.id))
FilterNotes(s, drop) ==
    IF s = <<>> THEN <<>>
    ELSE IF Head(s).id \in drop THEN FilterNotes(Tail(s), drop)
    ELSE <<Head(s)>> \o FilterNotes(Tail(s), drop)

RECURSIVE FilterChildren(_, _)
\* children.filter(child => child.id !== id)
FilterChildren(s, id) ==
    IF s = <<>> THEN <<>>
    ELSE IF Head(s).id = id THEN FilterChildren(Tail(s), id)
    ELSE <<Head(s)>> \o FilterChildren(Tail(s), id)

\* ------------------------------------------------------------------------
\* Tree traversals of App.tsx
\* ------------------------------------------------------------------------
RECURSIVE findNodeById(_, _)
\* Pre-order search; <<>> stands for null, <<node>> for a hit
findNodeById(nodes, id) ==
    IF nodes = <<>> THEN <<>>
    ELSE LET node == Head(nodes)
             found == IF node.hasChildren THEN findNodeById(node.children, id)
                      ELSE <<>>
         IN IF node.id = id THEN <<node>>
            ELSE IF found # <<>> THEN found
            ELSE findNodeById(Tail(nodes), id)

RECURSIVE findNotebookForNote(_, _)
findNotebookForNote(nodes, noteId) ==
    IF nodes = <<>> THEN <<>>
    ELSE LET node == Head(nodes)
             found == IF node.hasChildren
                      THEN findNotebookForNote(node.children, noteId)
                      ELSE <<>>
         IN IF node.type = "notebook" /\ node.hasNoteIds
               /\ Includes(node.noteIds, noteId)
            THEN <<node>>
            ELSE IF found # <<>> THEN found
            ELSE findNotebookForNote(Tail(nodes), noteId)

RECURSIVE collectNoteIds(_)
RECURSIVE collectNoteIdsOfAll(_)
\* handleRemoveStack.collectNoteIds: own noteIds, then the children's
collectNoteIds(node) ==
    (IF node.hasNoteIds THEN node.noteIds ELSE <<>>)
    \o (IF node.hasChildren THEN collectNoteIdsOfAll(node.children) ELSE <<>>)

collectNoteIdsOfAll(nodes) ==
    IF nodes = <<>> THEN <<>>
    ELSE collectNoteIds(Head(nodes)) \o collectNoteIdsOfAll(Tail(nodes))

RECURSIVE Flatten(_)
\* All nodes of a forest, in pre-order
Flatten(nodes) ==
    IF nodes = <<>> THEN <<>>
    ELSE <<Head(nodes)>>
         \o (IF Head(nodes).hasChildren THEN Flatten(Head(nodes).children)
             ELSE <<>>)
         \o Flatten(Tail(nodes))

NodeIds(nodes) == {n.id : n \in Range(Flatten(nodes))}

NoteIdsIn(nodes) == Range(collectNoteIdsOfAll(nodes))

NoteIdsOf(ns) == {n.id : n \in Range(ns)}

\* ------------------------------------------------------------------------
\* The updateNode closures of the handlers
\* ------------------------------------------------------------------------
RECURSIVE AppendChildUpdateNode(_, _, _)
\* updateNode of handleAddStack and handleAddNotebook
AppendChildUpdateNode(nodes, parentId, newNode) ==
    [i \in 1..Len(nodes) |->
        LET node == nodes[i]
        IN IF node.id = parentId
           THEN [node EXCEPT !.hasChildren = TRUE,
                             !.children = node.children \o <<newNode>>]
           ELSE IF node.hasChildren
           THEN [node EXCEPT !.children =
                    AppendChildUpdateNode(node.children, parentId, newNode)]
           ELSE node]

RECURSIVE RemoveChildUpdateNode(_, _, _)
\* updateNode of handleRemoveStack and handleRemoveNotebook
RemoveChildUpdateNode(nodes, parentId, childId) ==
    [i \in 1..Len(nodes) |->
        LET node == nodes[i]
        IN IF node.id = parentId
           THEN [node EXCEPT !.hasChildren = TRUE,
                             !.children = FilterChildren(node.children, childId)]
           ELSE IF node.hasChildren
           THEN [node EXCEPT !.children =
                    RemoveChildUpdateNode(node.children, parentId, childId)]
           ELSE node]

\* Variant of PrependNoteId that puts the new id last
PrependNoteId_Appends(newId, noteIds) == noteIds \o <<newId>>

\* [newNote.id, ...(node.noteIds || [])]
PrependNoteId(newId, noteIds) == <<newId>> \o noteIds

RECURSIVE AddNoteUpdateNode(_, _, _)
\* updateNode of handleAddNote
AddNoteUpdateNode(nodes, notebookId, newId) ==
    [i \in 1..Len(nodes) |->
        LET node == nodes[i]
        IN IF node.id = notebookId
           THEN [node EXCEPT !.hasNoteIds = TRUE,
                             !.noteIds = PrependNoteId(newId, node.noteIds)]
           ELSE IF node.hasChildren
           THEN [node EXCEPT !.children =
                    AddNoteUpdateNode(node.children, notebookId, newId)]
           ELSE node]

RECURSIVE RemoveNoteUpdateNode(_, _, _)
\* updateNode of handleRemoveNote
RemoveNoteUpdateNode(nodes, notebookId, noteId) ==
    [i \in 1..Len(nodes) |->
        LET node == nodes[i]
        IN IF node.id = notebookId
           THEN [node EXCEPT !.hasNoteIds = TRUE,
                             !.noteIds = FilterOut(node.noteIds, {noteId})]
           ELSE IF node.hasChildren
           THEN [node EXCEPT !.children =
                    RemoveNoteUpdateNode(node.children, notebookId, noteId)]
           ELSE node]

\* ------------------------------------------------------------------------
\* Timestamp-derived identifiers and the new records of the add handlers
\* ------------------------------------------------------------------------
\* `${prefix}-${Date.now()}`
TimestampId(prefix, t) == prefix \o "-" \o ToString(t)

newArea(t) == Node(TimestampId("area", t), "New Area", "area",
                   TRUE, <<>>, FALSE, <<>>)

newStack(t) == Node(TimestampId("stack", t), "New Stack", "stack",
                    TRUE, <<>>, FALSE, <<>>)

newNotebook(t) == Node(TimestampId("notebook", t), "New Notebook", "notebook",
                       FALSE, <<>>, TRUE, <<>>)

\* The bounded clock stays within one calendar day
toLocaleDateString(t) == "Nov 3"

newNote(t) == Note(TimestampId("note", t), "New Note", "",
                   toLocaleDateString(t),
                   "<h1>New Note</h1><p>Start writing here...</p>")

\* ------------------------------------------------------------------------
\* Configuration (config/env.ts)
\* ------------------------------------------------------------------------
autoSyncDelay == 30000

\* !!(config.google.clientId && config.google.apiKey)
isGoogleDriveAvailable(cfg) == cfg.clientId # "" /\ cfg.apiKey # ""

\* ------------------------------------------------------------------------
\* State
\* ------------------------------------------------------------------------
VARIABLES
    notes,            \* useState<Note[]>
    areas,            \* useState<Node[]>
    selectedNoteId,   \* useState<string | null>
    isInitialLoad,    \* useRef(true)
    autoSyncTimer,    \* the timeout held by autoSyncTimerRef, with its closure
    autoSyncCleanup,  \* the last run of the auto-sync effect returned a cleanup
    localStorage,     \* the two persisted JSON documents
    phase,            \* "constructed" before the first commit, then "mounted"
    now,              \* Date.now()
    ticks,            \* number of clock advances so far
    config,           \* config.google
    accessToken,      \* GoogleDriveService.accessToken
    syncStatus,       \* GoogleDriveService.syncStatus
    folderCache,      \* GoogleDriveService.folderCache
    syncRuns,         \* syncAll invocations that are awaiting their publishes
    syncCalls,        \* log of the syncAll calls made by the auto-sync timer
    drive,            \* the remote store: its folders and files
    trace,            \* history of the service: sessions, round trips, publishes
    last,             \* the last handler invocation and the state it started from
    burst,            \* the current burst of changes to notes/areas
    fn,               \* evaluation of sanitizeFilename on a drawn input
    editor,           \* the Editor component: its note prop and title state
    mindmap           \* the MindmapGenerator component, its timer and renders

appVars == <<notes, areas, selectedNoteId, isInitialLoad, autoSyncTimer,
             autoSyncCleanup, localStorage, phase>>

clockVars == <<now, ticks>>

svcVars == <<config, accessToken, syncStatus, folderCache, syncRuns, syncCalls,
             drive, trace>>

ghostVars == <<last, burst>>

viewVars == <<editor, mindmap>>

vars == <<appVars, clockVars, svcVars, ghostVars, fn, viewVars>>

NoTimer == [armed |-> FALSE, due |-> 0, notes |-> <<>>, areas |-> <<>>]

\* getItem returns null for a key that was never set
AbsentDoc == [present |-> FALSE, parses |-> FALSE, value |-> <<>>]

\* A stored text that is not JSON: JSON.parse throws a SyntaxError on it
CorruptDoc == [present |-> TRUE, parses |-> FALSE, value |-> <<>>]

\* JSON.stringify(value) stored under a key; JSON.parse gives value back
Doc(value) == [present |-> TRUE, parses |-> TRUE, value |-> value]

NoLast == [n |-> 0, op |-> "none", a1 |-> "", a2 |-> "", newId |-> "",
           preNotes |-> <<>>, preAreas |-> <<>>, changed |-> FALSE,
           undo |-> FALSE, baseNotes |-> <<>>, baseAreas |-> <<>>]

NoBurst == [open |-> FALSE, n |-> 0, lastAt |-> 0, notes |-> <<>>,
            areas |-> <<>>, attempts |-> <<>>]

EmptyDrive == [folders |-> {}, files |-> {}, nextId |-> 1]

NoTrace == [session |-> 0, trips |-> {}, answers |-> {}, cachedIn |-> {},
            retrips |-> {}, stale |-> {}, faults |-> 0, denied |-> FALSE]

FnIdle == [pc |-> "idle", input |-> <<>>, once |-> <<>>, twice |-> <<>>,
           plainOnce |-> <<>>, plainTwice |-> <<>>]

\* MindmapGenerator once mounted (part_000 192-196, 254): closed, no type
\* selected, and the debounce timer of the first run of the render effect
\* pending with the empty code.  renders are the mermaid.render calls
\* awaited; started, edits, lastDone, failedSince, latest (the last render
\* started, and whether the code is unchanged since), inserted and event
\* record what has happened
MindmapInit ==
    [isOpen |-> FALSE, selectedType |-> Null, mermaidCode |-> "",
     preview |-> "", error |-> "",
     timer |-> [armed |-> TRUE, code |-> ""], renders |-> {},
     started |-> 0, edits |-> 0, lastDone |-> "none", failedSince |-> FALSE,
     latest |-> [n |-> 0, code |-> "", current |-> FALSE], done |-> 0,
     inserted |-> Null, event |-> "none"]

\* No note is selected: the note prop of Editor is null
NoNote == [present |-> FALSE, id |-> "", title |-> <<>>]

\* No update-title event has been emitted
NoEvent == [n |-> 0, noteId |-> "", newTitle |-> <<>>]

\* Editor before a note is passed to it (Editor.tsx 1586-1587); strings the
\* user types are sequences of characters; emitted is the last update-title
\* event with its number, event the last event handled
EditorInit == [note |-> NoNote, isEditingTitle |-> FALSE, titleValue |-> <<>>,
               emitted |-> NoEvent, event |-> "none"]

\* State after construction of App and of the googleDriveService singleton
InitButStorage ==
    /\ notes = <<>>
    /\ areas = <<>>
    /\ selectedNoteId = Null
    /\ isInitialLoad = TRUE
    /\ autoSyncTimer = NoTimer
    /\ autoSyncCleanup = FALSE
    /\ phase = "constructed"
    /\ now = 0
    /\ ticks = 0
    /\ accessToken = Null
    /\ syncStatus = [isConnected |-> FALSE, lastSync |-> Null,
                     isSyncing |-> FALSE, error |-> Null]
    /\ folderCache = {}
    /\ syncRuns = <<>>
    /\ syncCalls = <<>>
    /\ drive = EmptyDrive
    /\ trace = NoTrace
    /\ last = NoLast
    /\ burst = NoBurst
    /\ fn = FnIdle
    /\ editor = EditorInit
    /\ mindmap = MindmapInit

\* The same in a browser whose local storage was never written
InitCommon ==
    /\ InitButStorage
    /\ localStorage = [notes |-> AbsentDoc, areas |-> AbsentDoc]

\* ------------------------------------------------------------------------
\* Effects of App, run after every commit in which notes or areas changed
\* ------------------------------------------------------------------------
\* Save effect (App.tsx 140-151), once isInitialLoad.current is false
SaveEffect(n, a) ==
    localStorage' = [notes |-> Doc(n), areas |-> Doc(a)]

\* Variant of AutoSyncEffect that leaves a pending timer in place
AutoSyncEffect_KeepsPending(n, a) ==
    IF ~isGoogleDriveAvailable(config) \/ ~syncStatus.isConnected
    THEN /\ autoSyncTimer' = IF autoSyncCleanup THEN NoTimer ELSE autoSyncTimer
         /\ autoSyncCleanup' = FALSE
    ELSE /\ autoSyncTimer' = IF autoSyncTimer.armed THEN autoSyncTimer
                              ELSE [armed |-> TRUE, due |-> now + autoSyncDelay,
                                    notes |-> n, areas |-> a]
         /\ autoSyncCleanup' = TRUE

\* Auto-sync effect (App.tsx 166-198): the cleanup of the previous run, then
\* the guards, then the replacement of the timer
AutoSyncEffect(n, a) ==
    IF ~isGoogleDriveAvailable(config) \/ ~syncStatus.isConnected
    THEN /\ autoSyncTimer' = IF autoSyncCleanup THEN NoTimer ELSE autoSyncTimer
         /\ autoSyncCleanup' = FALSE
    ELSE /\ autoSyncTimer' = [armed |-> TRUE, due |-> now + autoSyncDelay,
                              notes |-> n, areas |-> a]
         /\ autoSyncCleanup' = TRUE

\* The burst the new change belongs to.  A burst is a run of changes made
\* while connected with credentials configured, each less than the delay
\* after the previous one
BurstAfterChange(n, a) ==
    IF isGoogleDriveAvailable(config) /\ syncStatus.isConnected
    THEN IF burst.open /\ now < burst.lastAt + autoSyncDelay
         THEN [burst EXCEPT !.n = burst.n + 1, !.lastAt = now, !.notes = n,
                            !.areas = a]
         ELSE [open |-> TRUE, n |-> 1, lastAt |-> now, notes |-> n,
               areas |-> a, attempts |-> <<>>]
    ELSE [open |-> FALSE, n |-> 0, lastAt |-> 0, notes |-> <<>>,
          areas |-> <<>>, attempts |-> <<>>]

\* A timer that is due runs before any later event is handled
NoTimerDue == ~(autoSyncTimer.armed /\ now >= autoSyncTimer.due)

\* Commit of a handler's state updates: re-render, then the effects
Commit(n, a, sel) ==
    /\ notes' = n
    /\ areas' = a
    /\ selectedNoteId' = sel
    /\ SaveEffect(n, a)
    /\ AutoSyncEffect(n, a)
    /\ burst' = BurstAfterChange(n, a)
    /\ UNCHANGED <<isInitialLoad, phase, clockVars, svcVars, fn, viewVars>>

Record(op, a1, a2, newId, changed) ==
    [n |-> last.n + 1, op |-> op, a1 |-> a1, a2 |-> a2, newId |-> newId,
     preNotes |-> notes, preAreas |-> areas, changed |-> changed,
     undo |-> FALSE, baseNotes |-> <<>>, baseAreas |-> <<>>]

\* ------------------------------------------------------------------------
\* Mount: the first commit (load effect, save effect, auto-sync effect) and
\* the commit of the state the load effect set
\* ------------------------------------------------------------------------
\* JSON.parse of one of the two stored texts throws (App.tsx 116-117): the
\* catch block (125-129) runs
LoadThrows ==
    \/ localStorage.notes.present /\ ~localStorage.notes.parses
    \/ localStorage.areas.present /\ ~localStorage.areas.parses

\* savedNotes ? JSON.parse(savedNotes) : ALL_NOTES_INITIAL, or the seed set
\* by the catch block
LoadedNotes == IF LoadThrows THEN ALL_NOTES_INITIAL
               ELSE IF localStorage.notes.present THEN localStorage.notes.value
               ELSE ALL_NOTES_INITIAL

\* savedAreas ? JSON.parse(savedAreas) : AREAS_INITIAL, or the seed set by
\* the catch block
LoadedAreas == IF LoadThrows THEN AREAS_INITIAL
               ELSE IF localStorage.areas.present THEN localStorage.areas.value
               ELSE AREAS_INITIAL

Mount ==
    /\ phase = "constructed"
    /\ phase' = "mounted"
    /\ isInitialLoad' = FALSE
    /\ notes' = LoadedNotes
    /\ areas' = LoadedAreas
    /\ selectedNoteId' = IF ~LoadThrows /\ Len(LoadedNotes) > 0
                          THEN LoadedNotes[1].id ELSE Null
    /\ SaveEffect(LoadedNotes, LoadedAreas)
    /\ AutoSyncEffect(LoadedNotes, LoadedAreas)
    /\ burst' = BurstAfterChange(LoadedNotes, LoadedAreas)
    /\ last' = [Record("mount", "", "", "", TRUE) EXCEPT !.n = 0]
    /\ UNCHANGED <<clockVars, svcVars, fn, viewVars>>

\* ------------------------------------------------------------------------
\* Handlers of App
\* ------------------------------------------------------------------------
Ready == phase = "mounted" /\ NoTimerDue

handleAddArea ==
    /\ Ready
    /\ Len(Flatten(areas)) < MaxNodes
    /\ Commit(notes, areas \o <<newArea(now)>>, selectedNoteId)
    /\ last' = Record("addArea", "", "", newArea(now).id, TRUE)

handleAddStack(areaId) ==
    /\ Ready
    /\ Len(Flatten(areas)) < MaxNodes
    /\ Commit(notes, AppendChildUpdateNode(areas, areaId, newStack(now)),
              selectedNoteId)
    /\ last' = Record("addStack", areaId, "", newStack(now).id, TRUE)

handleAddNotebook(stackId) ==
    /\ Ready
    /\ Len(Flatten(areas)) < MaxNodes
    /\ Commit(notes, AppendChildUpdateNode(areas, stackId, newNotebook(now)),
              selectedNoteId)
    /\ last' = Record("addNotebook", stackId, "", newNotebook(now).id, TRUE)

handleRemoveStack(areaId, stackId) ==
    /\ Ready
    /\ LET stack == findNodeById(areas, stackId)
       IN IF stack = <<>>
          THEN /\ last' = Record("removeStack", areaId, stackId, "", FALSE)
               /\ UNCHANGED <<appVars, clockVars, svcVars, burst, fn, viewVars>>
          ELSE LET noteIdsToRemove == collectNoteIds(stack[1])
               IN /\ Commit(FilterNotes(notes, Range(noteIdsToRemove)),
                            RemoveChildUpdateNode(areas, areaId, stackId),
                            IF Includes(noteIdsToRemove,
                                        IF selectedNoteId = Null THEN ""
                                        ELSE selectedNoteId)
                            THEN Null ELSE selectedNoteId)
                  /\ last' = Record("removeStack", areaId, stackId, "", TRUE)

handleRemoveNotebook(stackId, notebookId) ==
    /\ Ready
    /\ LET notebook == findNodeById(areas, notebookId)
       IN IF notebook = <<>>
          THEN /\ last' = Record("removeNotebook", stackId, notebookId, "", FALSE)
               /\ UNCHANGED <<appVars, clockVars, svcVars, burst, fn, viewVars>>
          ELSE LET noteIdsToRemove == IF notebook[1].hasNoteIds
                                      THEN notebook[1].noteIds ELSE <<>>
               IN /\ Commit(FilterNotes(notes, Range(noteIdsToRemove)),
                            RemoveChildUpdateNode(areas, stackId, notebookId),
                            IF Includes(noteIdsToRemove,
                                        IF selectedNoteId = Null THEN ""
                                        ELSE selectedNoteId)
                            THEN Null ELSE selectedNoteId)
                  /\ last' = Record("removeNotebook", stackId, notebookId, "", TRUE)

\* [newNote, ...prev]
PrependNote(note, prev) == <<note>> \o prev

handleAddNote(notebookId) ==
    /\ Ready
    /\ Len(notes) < MaxNotes
    /\ Len(collectNoteIdsOfAll(areas)) < MaxNotes
    /\ Commit(PrependNote(newNote(now), notes),
              AddNoteUpdateNode(areas, notebookId, newNote(now).id),
              newNote(now).id)
    /\ last' = Record("addNote", notebookId, "", newNote(now).id, TRUE)

handleRemoveNote(notebookId, noteId) ==
    /\ Ready
    /\ Commit(FilterNotes(notes, {noteId}),
              RemoveNoteUpdateNode(areas, notebookId, noteId),
              IF selectedNoteId = noteId THEN Null ELSE selectedNoteId)
    /\ last' = [Record("removeNote", notebookId, noteId, "", TRUE) EXCEPT
                  !.undo = (last.op = "addNote" /\ last.a1 = notebookId
                            /\ last.newId = noteId),
                  !.baseNotes = IF last.op = "addNote" /\ last.a1 = notebookId
                                   /\ last.newId = noteId
                                THEN last.preNotes ELSE <<>>,
                  !.baseAreas = IF last.op = "addNote" /\ last.a1 = notebookId
                                   /\ last.newId = noteId
                                THEN last.preAreas ELSE <<>>]

\* prevNotes.map(note => note.id === noteId ? {...note, title} : note)
handleUpdateTitle(noteId, newTitle) ==
    /\ Ready
    /\ Commit([i \in 1..Len(notes) |->
                 IF notes[i].id = noteId
                 THEN [notes[i] EXCEPT !.title = newTitle] ELSE notes[i]],
              areas, selectedNoteId)
    /\ last' = Record("updateTitle", noteId, newTitle, "", TRUE)

\* ------------------------------------------------------------------------
\* The clock
\* ------------------------------------------------------------------------
\* Time passes by d ms, never past the moment a pending timer is due
Tick(d, maxTicks) ==
    /\ ticks < maxTicks
    /\ autoSyncTimer.armed => now + d <= autoSyncTimer.due
    /\ now' = now + d
    /\ ticks' = ticks + 1
    /\ UNCHANGED <<appVars, svcVars, ghostVars, fn, viewVars>>

\* ------------------------------------------------------------------------
\* The application driven through its handlers with arbitrary id arguments
\* ------------------------------------------------------------------------
Init ==
    /\ InitCommon
    /\ config = [clientId |-> "", apiKey |-> ""]

\* Ids a caller can pass for a node: every id of the forest, or a stale one
ParentArgs == NodeIds(areas) \cup {StaleId}

\* Ids a caller can pass for a note
NoteArgs == NoteIdsOf(notes) \cup NoteIdsIn(areas) \cup {StaleId}

\* The parent id passed along with a child id: the id of a node that has
\* that child (what the navigation view passes), or a stale one
ParentsOf(childId) ==
    {n.id : n \in {m \in Range(Flatten(areas)) :
                      m.hasChildren /\ childId \in NodeIds(m.children)
                      /\ \E i \in 1..Len(m.children) : m.children[i].id = childId}}
    \cup {StaleId}

\* The notebook id passed along with a note id
NotebooksOf(noteId) ==
    {n.id : n \in {m \in Range(Flatten(areas)) :
                      m.hasNoteIds /\ Includes(m.noteIds, noteId)}}
    \cup {StaleId}

\* The number of handler invocations of a run is bounded
OpsLeft == last.n < MaxOps

AddArea == OpsLeft /\ handleAddArea

AddStack == OpsLeft /\ \E areaId \in ParentArgs : handleAddStack(areaId)

AddNotebook == OpsLeft /\ \E stackId \in ParentArgs : handleAddNotebook(stackId)

AddNote == OpsLeft /\ \E notebookId \in ParentArgs : handleAddNote(notebookId)

RemoveStack ==
    OpsLeft /\ \E stackId \in ParentArgs : \E areaId \in ParentsOf(stackId) :
        handleRemoveStack(areaId, stackId)

RemoveNotebook ==
    OpsLeft /\ \E notebookId \in ParentArgs : \E stackId \in ParentsOf(notebookId) :
        handleRemoveNotebook(stackId, notebookId)

RemoveNote ==
    OpsLeft /\ \E noteId \in NoteArgs : \E notebookId \in NotebooksOf(noteId) :
        handleRemoveNote(notebookId, noteId)

ClockTick == Tick(1, MaxClock)

Next ==
    \/ Mount
    \/ AddArea
    \/ AddStack
    \/ AddNotebook
    \/ AddNote
    \/ RemoveStack
    \/ RemoveNotebook
    \/ RemoveNote
    \/ ClockTick

Spec == Init /\ [][Next]_vars

\* ------------------------------------------------------------------------
\* The application driven through handleAddNote and handleRemoveNote only,
\* for longer runs of these two handlers
\* ------------------------------------------------------------------------
MaxNoteOps == 3

NoteOpsLeft == last.n < MaxNoteOps

NotesAddNote ==
    NoteOpsLeft /\ \E notebookId \in ParentArgs : handleAddNote(notebookId)

NotesRemoveNote ==
    NoteOpsLeft /\ \E noteId \in NoteArgs : \E notebookId \in NotebooksOf(noteId) :
        handleRemoveNote(notebookId, noteId)

NextNotes ==
    \/ Mount
    \/ NotesAddNote
    \/ NotesRemoveNote
    \/ ClockTick

SpecNotes == Init /\ [][NextNotes]_vars

\* ------------------------------------------------------------------------
\* Properties of the tree model
\* ------------------------------------------------------------------------
\* Every id that occurs in a forest: node ids and noteIds entries
IdsOccurring(nodes) == NodeIds(nodes) \cup NoteIdsIn(nodes)

Count(s, x) == Cardinality({i \in 1..Len(s) : s[i] = x})

SameMultiset(s, t) ==
    /\ Len(s) = Len(t)
    /\ \A x \in Range(s) \cup Range(t) : Count(s, x) = Count(t, x)

NoteIdsField(node) == IF node.hasNoteIds THEN node.noteIds ELSE <<>>

\* C1: a mutation invoked with a target id that occurs nowhere in the forest
\* returns the forest and the note collection unchanged.
C1_StaleTargetIsNoOp ==
    /\ (last.op \in {"addStack", "addNotebook", "addNote"}
        /\ last.a1 \notin IdsOccurring(last.preAreas))
       => (areas = last.preAreas /\ notes = last.preNotes)
    /\ (last.op \in {"removeStack", "removeNotebook", "removeNote"}
        /\ last.a2 \notin IdsOccurring(last.preAreas))
       => (areas = last.preAreas /\ notes = last.preNotes)

\* C2: after removeStack / removeNotebook no remaining noteIds entry refers
\* to a note the operation deleted, and no note referenced only from the
\* removed subtree remains in the collection.
C2_CascadeLeavesNoDanglingRef ==
    (last.op \in {"removeStack", "removeNotebook"} /\ last.changed) =>
        LET deleted == NoteIdsOf(last.preNotes) \ NoteIdsOf(notes)
            subtree == findNodeById(last.preAreas, last.a2)[1]
        IN /\ NoteIdsIn(areas) \cap deleted = {}
           /\ \A i \in 1..Len(notes) :
                ~(/\ notes[i].id \in Range(collectNoteIds(subtree))
                  /\ notes[i].id \notin NoteIdsIn(areas))

\* C3: addNote(b) followed by removeNote(b, newId) restores the note
\* collection (as a multiset) and notebook b's noteIds.
C3_AddThenRemoveRestores ==
    (last.op = "removeNote" /\ last.undo) =>
        /\ SameMultiset(notes, last.baseNotes)
        /\ LET pre == findNodeById(last.baseAreas, last.a1)
               post == findNodeById(areas, last.a1)
           IN (pre # <<>> /\ pre[1].type = "notebook") =>
                 (post # <<>> /\ NoteIdsField(post[1]) = NoteIdsField(pre[1]))

\* C4: after addNote on an existing notebook the new note is in the
\* collection, its id is in that notebook's noteIds and in no other node's,
\* and findNotebookForNote returns that notebook.
C4_AddNoteLinksNotebook ==
    (last.op = "addNote"
     /\ \E n \in Range(Flatten(last.preAreas)) :
           n.id = last.a1 /\ n.type = "notebook") =>
        /\ last.newId \in NoteIdsOf(notes)
        /\ \A n \in Range(Flatten(areas)) :
              Includes(NoteIdsField(n), last.newId) <=> n.id = last.a1
        /\ LET found == findNotebookForNote(areas, last.newId)
           IN found # <<>> /\ found[1].id = last.a1
              /\ found[1] = findNodeById(areas, last.a1)[1]

\* C5: addNote inserts at index 0 of the note list and of the notebook's
\* noteIds; addArea, addStack and addNotebook insert at the last index; the
\* order of the previously existing elements is unchanged.
C5_InsertionOrder ==
    /\ last.op = "addNote" =>
          /\ Len(notes) = Len(last.preNotes) + 1
          /\ notes[1].id = last.newId
          /\ Tail(notes) = last.preNotes
          /\ LET pre == findNodeById(last.preAreas, last.a1)
                 post == findNodeById(areas, last.a1)
             IN pre # <<>> =>
                  /\ post # <<>>
                  /\ Len(post[1].noteIds) = Len(NoteIdsField(pre[1])) + 1
                  /\ post[1].noteIds[1] = last.newId
                  /\ Tail(post[1].noteIds) = NoteIdsField(pre[1])
    /\ last.op = "addArea" =>
          /\ Len(areas) = Len(last.preAreas) + 1
          /\ areas[Len(areas)].id = last.newId
          /\ SubSeq(areas, 1, Len(areas) - 1) = last.preAreas
    /\ last.op \in {"addStack", "addNotebook"} =>
          LET pre == findNodeById(last.preAreas, last.a1)
              post == findNodeById(areas, last.a1)
          IN pre # <<>> =>
               /\ post # <<>>
               /\ Len(post[1].children) = Len(pre[1].children) + 1
               /\ post[1].children[Len(post[1].children)].id = last.newId
               /\ SubSeq(post[1].children, 1, Len(post[1].children) - 1)
                    = pre[1].children

\* Witness of C5: a note was added to a notebook that already held a note
C5_Witness ==
    /\ last.op = "addNote"
    /\ findNodeById(last.preAreas, last.a1) # <<>>
    /\ Len(NoteIdsField(findNodeById(last.preAreas, last.a1)[1])) >= 1
    /\ Len(last.preNotes) >= 2
    /\ findNodeById(areas, last.a1)[1].noteIds[1] = last.newId

\* C6: node ids are unique tree-wide and note ids are unique in the flat
\* collection in every reachable state.
C6_IdsUnique ==
    /\ \A i, j \in 1..Len(Flatten(areas)) :
          Flatten(areas)[i].id = Flatten(areas)[j].id => i = j
    /\ \A i, j \in 1..Len(notes) : notes[i].id = notes[j].id => i = j

RECURSIVE WellFormed(_, _)
\* Nodes at one level have the expected type, only notebooks carry noteIds,
\* and children are one level further down
WellFormed(nodes, type) ==
    \A i \in 1..Len(nodes) :
        /\ nodes[i].type = type
        /\ nodes[i].hasNoteIds => type = "notebook"
        /\ nodes[i].hasChildren =>
              /\ type # "notebook" \/ nodes[i].children = <<>>
              /\ type = "area" => WellFormed(nodes[i].children, "stack")
              /\ type = "stack" => WellFormed(nodes[i].children, "notebook")

\* C7: every tree mutation preserves the structural invariants: roots are
\* areas, their children stacks, their children notebooks, and only
\* notebooks carry noteIds.
C7_StructurePreserved == WellFormed(areas, "area")

\* ------------------------------------------------------------------------
\* sanitizeFilename (utils/markdown.ts)
\*
\* A string is a sequence of runs [c, n]: n copies of the character c.  The
\* characters stand for the classes the three regular expressions tell apart.
\* ------------------------------------------------------------------------
MaxRuns == 3

MaxFilenameLength == 255

\* "a" ordinary, "." dot, "-" hyphen, " " space, "\n" line feed (a control
\* character, whitespace and a line terminator), ":" and "\\" forbidden
Chars == {"a", ".", "-", " ", "\n", ":", "\\"}

\* [<>:"/\\|?*\x00-\x1F]
ForbiddenChars == {":", "\\"}

ControlChars == {"\n"}

\* \s
WhitespaceChars == {" ", "\n"}

\* Characters that . does not match
LineTerminators == {"\n"}

Run(c, n) == [c |-> c, n |-> n]

RECURSIVE StrLen(_)
StrLen(s) == IF s = <<>> THEN 0 ELSE Head(s).n + StrLen(Tail(s))

RECURSIVE Canonical(_)
\* The same string with adjacent runs of one character merged
Canonical(s) ==
    IF s = <<>> THEN <<>>
    ELSE LET rest == Canonical(Tail(s))
         IN IF Head(s).n = 0 THEN rest
            ELSE IF rest # <<>> /\ rest[1].c = Head(s).c
            THEN <<Run(Head(s).c, Head(s).n + rest[1].n)>> \o Tail(rest)
            ELSE <<Head(s)>> \o rest

RECURSIVE RemoveCharsViolatingCharset(_)
\* Variant of RemoveInvalidChars whose class lacks the backslash
RemoveCharsViolatingCharset(s) ==
    IF s = <<>> THEN <<>>
    ELSE IF Head(s).c \in {":"} \cup ControlChars
    THEN RemoveCharsViolatingCharset(Tail(s))
    ELSE <<Head(s)>> \o RemoveCharsViolatingCharset(Tail(s))

RECURSIVE RemoveInvalidCharsRec(_)
RemoveInvalidCharsRec(s) ==
    IF s = <<>> THEN <<>>
    ELSE IF Head(s).c \in ForbiddenChars \cup ControlChars
    THEN RemoveInvalidCharsRec(Tail(s))
    ELSE <<Head(s)>> \o RemoveInvalidCharsRec(Tail(s))

\* .replace(/[<>:"/\\|?*\x00-\x1F]/g, '')
RemoveInvalidChars(s) == RemoveInvalidCharsRec(s)

RECURSIVE ReplaceWhitespace(_)
\* .replace(/\s+/g, '-'): each maximal run of whitespace becomes one hyphen
ReplaceWhitespace(s) ==
    IF s = <<>> THEN <<>>
    ELSE IF Head(s).c \in WhitespaceChars
    THEN IF Len(s) > 1 /\ s[2].c \in WhitespaceChars
         THEN ReplaceWhitespace(Tail(s))
         ELSE <<Run("-", 1)>> \o ReplaceWhitespace(Tail(s))
    ELSE <<Head(s)>> \o ReplaceWhitespace(Tail(s))

RECURSIVE RemoveLeadingDots(_)
\* .replace(/^\.+/, '') of the revision at lines 49-55
RemoveLeadingDots(s) ==
    IF s # <<>> /\ Head(s).c = "." THEN RemoveLeadingDots(Tail(s)) ELSE s

RECURSIVE SkipToLineTerminator(_)
\* What is left after a greedy .+ has matched from the start of s
SkipToLineTerminator(s) ==
    IF s = <<>> \/ Head(s).c \in LineTerminators THEN s
    ELSE SkipToLineTerminator(Tail(s))

\* .replace(/^\\.+/, '') of the revision at lines 307-313: a leading
\* backslash followed by at least one character other than a line terminator
RemoveLeadingBackslashRun(s) ==
    LET t == Canonical(s)
    IN IF t # <<>> /\ t[1].c = "\\"
          /\ (t[1].n >= 2 \/ (Len(t) > 1 /\ t[2].c \notin LineTerminators))
       THEN SkipToLineTerminator(Tail(t))
       ELSE s

RECURSIVE Substring(_, _)
\* .substring(0, k)
Substring(s, k) ==
    IF s = <<>> \/ k <= 0 THEN <<>>
    ELSE IF Head(s).n >= k THEN <<Run(Head(s).c, k)>>
    ELSE <<Head(s)>> \o Substring(Tail(s), k - Head(s).n)

\* sanitizeFilename, lines 307-313
sanitizeFilename(filename) ==
    Canonical(Substring(RemoveLeadingBackslashRun(ReplaceWhitespace(
        RemoveInvalidChars(filename))), MaxFilenameLength))

\* sanitizeFilename, lines 49-55
sanitizeFilenameRev1(filename) ==
    Canonical(Substring(RemoveLeadingDots(ReplaceWhitespace(
        RemoveInvalidChars(filename))), MaxFilenameLength))

\* Strings of at most MaxRuns runs, each of one character or of as many as
\* the length limit
RunSet == {Run(c, n) : c \in Chars, n \in {1, MaxFilenameLength}}

RECURSIVE StringsUpTo(_)
StringsUpTo(k) ==
    IF k = 0 THEN {<<>>}
    ELSE LET shorter == StringsUpTo(k - 1)
         IN shorter \cup {<<r>> \o s : r \in RunSet,
                                      s \in {t \in shorter : Len(t) = k - 1}}

InitSanitize ==
    /\ InitCommon
    /\ config = [clientId |-> "", apiKey |-> ""]

DrawFilename ==
    /\ fn.pc = "idle"
    /\ \E s \in StringsUpTo(MaxRuns) : fn' = [fn EXCEPT !.pc = "drawn", !.input = s]
    /\ UNCHANGED <<appVars, clockVars, svcVars, ghostVars, viewVars>>

SanitizeOnce ==
    /\ fn.pc = "drawn"
    /\ fn' = [fn EXCEPT !.pc = "once",
                        !.once = sanitizeFilename(fn.input),
                        !.plainOnce = sanitizeFilenameRev1(fn.input)]
    /\ UNCHANGED <<appVars, clockVars, svcVars, ghostVars, viewVars>>

SanitizeTwice ==
    /\ fn.pc = "once"
    /\ fn' = [fn EXCEPT !.pc = "twice",
                        !.twice = sanitizeFilename(fn.once),
                        !.plainTwice = sanitizeFilenameRev1(fn.plainOnce)]
    /\ UNCHANGED <<appVars, clockVars, svcVars, ghostVars, viewVars>>

NextSanitize ==
    \/ DrawFilename
    \/ SanitizeOnce
    \/ SanitizeTwice

SpecSanitize == InitSanitize /\ [][NextSanitize]_vars

CharsOf(s) == {s[i].c : i \in 1..Len(s)}

RECURSIVE CountChar(_, _)
CountChar(s, c) ==
    IF s = <<>> THEN 0
    ELSE (IF Head(s).c = c THEN Head(s).n ELSE 0) + CountChar(Tail(s), c)

\* Number of maximal whitespace runs of a string
WhitespaceRuns(s) ==
    LET t == Canonical(s)
    IN Cardinality({i \in 1..Len(t) :
                      /\ t[i].c \in WhitespaceChars
                      /\ (i = 1 \/ t[i - 1].c \notin WhitespaceChars)})

SafeFilename(s) ==
    /\ CharsOf(s) \cap (ForbiddenChars \cup ControlChars) = {}
    /\ StrLen(s) <= MaxFilenameLength

\* C8: sanitizeFilename is idempotent, and its result has no forbidden or
\* control character and at most 255 characters (both revisions).
C8_SanitizeIdempotentAndSafe ==
    /\ fn.pc \in {"once", "twice"} =>
          SafeFilename(fn.once) /\ SafeFilename(fn.plainOnce)
    /\ fn.pc = "twice" =>
          fn.twice = fn.once /\ fn.plainTwice = fn.plainOnce

\* Witness of C8: a title with a forbidden character, whitespace and more
\* than 255 characters was sanitized twice
C8_Witness ==
    /\ fn.pc = "twice"
    /\ CharsOf(fn.input) \cap ForbiddenChars # {}
    /\ CharsOf(fn.input) \cap WhitespaceChars # {}
    /\ StrLen(fn.input) > MaxFilenameLength
    /\ StrLen(fn.once) = MaxFilenameLength

\* C9: the result never begins with a dot, and every run of whitespace of
\* the title is replaced by exactly one hyphen.
C9_NoLeadingDotOneHyphenPerRun ==
    fn.pc \in {"once", "twice"} =>
        /\ fn.once = <<>> \/ fn.once[1].c # "."
        /\ CharsOf(fn.once) \cap WhitespaceChars = {}
        /\ (/\ CharsOf(fn.input) \cap (ForbiddenChars \cup ControlChars) = {}
            /\ StrLen(fn.input) <= MaxFilenameLength)
           => CountChar(fn.once, "-") =
                 CountChar(fn.input, "-") + WhitespaceRuns(fn.input)

\* ------------------------------------------------------------------------
\* Connection and auto-sync
\* ------------------------------------------------------------------------
MaxSyncOps == 2

MaxSyncTicks == 3

\* tokenClient.callback of signIn (part_002 244-254)
tokenCallback(response) ==
    /\ IF response.error
       THEN UNCHANGED <<accessToken, syncStatus>>
       ELSE /\ accessToken' = response.access_token
            /\ syncStatus' = [syncStatus EXCEPT !.isConnected = TRUE,
                                                !.error = Null]
    /\ UNCHANGED <<appVars, clockVars, config, folderCache, syncRuns,
                   syncCalls, ghostVars, fn, viewVars>>

\* signOut (part_002 283-294)
signOut ==
    /\ accessToken' = Null
    /\ syncStatus' = [syncStatus EXCEPT !.isConnected = FALSE]
    /\ folderCache' = {}
    /\ burst' = NoBurst
    /\ UNCHANGED <<appVars, clockVars, config, syncRuns, syncCalls, last, fn,
                   viewVars>>

\* The callback of the auto-sync timeout (App.tsx 183-190) and the
\* synchronous part of the syncAll call it makes (part_002 631-637); the
\* invocation then waits for its first publish
AutoSyncTimerFires ==
    /\ phase = "mounted"
    /\ autoSyncTimer.armed
    /\ now >= autoSyncTimer.due
    /\ autoSyncTimer' = NoTimer
    /\ LET call == [at |-> now, notes |-> autoSyncTimer.notes,
                    areas |-> autoSyncTimer.areas]
       IN IF Len(autoSyncTimer.notes) > 0
          THEN /\ syncCalls' = Append(syncCalls, call)
               /\ burst' = IF burst.open
                           THEN [burst EXCEPT !.attempts = Append(@, call)]
                           ELSE burst
               /\ IF syncStatus.isConnected
                  THEN /\ syncStatus' = [syncStatus EXCEPT !.isSyncing = TRUE,
                                                           !.error = Null]
                       /\ syncRuns' = Append(syncRuns,
                              [notes |-> call.notes, areas |-> call.areas,
                               next |-> 1])
                  ELSE UNCHANGED <<syncStatus, syncRuns>>
          ELSE UNCHANGED <<syncCalls, burst, syncStatus, syncRuns>>
    /\ UNCHANGED <<notes, areas, selectedNoteId, isInitialLoad,
                   autoSyncCleanup, localStorage, phase, clockVars, config,
                   accessToken, folderCache, drive, trace, last, fn, viewVars>>

InitSync ==
    /\ InitCommon
    /\ config \in {[clientId |-> "client-id", apiKey |-> "api-key"],
                   [clientId |-> "client-id", apiKey |-> ""]}

SyncOpsLeft == last.n < MaxSyncOps

SignIn ==
    \E response \in {[error |-> TRUE, access_token |-> Null],
                     [error |-> FALSE, access_token |-> "token"]} :
        tokenCallback(response) /\ UNCHANGED <<drive, trace>>

SignOut == signOut /\ UNCHANGED <<drive, trace>>

\* The navigation view's invocations (NoteListComponent): the ids passed are
\* those of the rendered nodes
ViewAddNote ==
    /\ SyncOpsLeft
    /\ \E nb \in {m \in Range(Flatten(areas)) : m.type = "notebook"} :
          handleAddNote(nb.id)

ViewRemoveStack ==
    /\ SyncOpsLeft
    /\ \E i \in 1..Len(areas) : \E j \in 1..Len(areas[i].children) :
          handleRemoveStack(areas[i].id, areas[i].children[j].id)

EditTitle ==
    /\ SyncOpsLeft
    /\ \E id \in NoteIdsOf(notes) : handleUpdateTitle(id, "Renamed")

SyncTick ==
    \E d \in {1, autoSyncDelay - 1} : Tick(d, MaxSyncTicks)

NextSync ==
    \/ Mount
    \/ SignIn
    \/ SignOut
    \/ ViewAddNote
    \/ ViewRemoveStack
    \/ EditTitle
    \/ AutoSyncTimerFires
    \/ SyncTick

SpecSync == InitSync /\ [][NextSync]_vars

\* The burst is over: the delay has elapsed since its last change and the
\* timer that was due has run
BurstSettled ==
    /\ burst.open
    /\ now >= burst.lastAt + autoSyncDelay
    /\ NoTimerDue

BurstQuiet ==
    (burst.open /\ now < burst.lastAt + autoSyncDelay) => burst.attempts = <<>>

OneAttemptForBurst ==
    burst.attempts = << [at |-> burst.lastAt + autoSyncDelay,
                         notes |-> burst.notes, areas |-> burst.areas] >>

MaxInvocations == 2

MaxFaults == 1

MaxSessions == 2

ROOT_FOLDER_NAME == "Gemini-Notebook"

NOTES_FOLDER_NAME == "Notes"

NotConnectedMessage == "Not connected to Google Drive"

\* A rejection of a gapi.client request is a response object, not an Error
GapiRejection == [isError |-> FALSE, message |-> ""]

\* fetch rejects with a TypeError when the request cannot be made
FetchRejection == [isError |-> TRUE, message |-> "Failed to fetch"]

\* error instanceof Error ? error.message : 'Unknown error'
ErrorMessage(error) == IF error.isError THEN error.message ELSE "Unknown error"

\* new Date() at time t
NewDate(t) == ToString(t)

\* `${parentId || 'root'}-${folderName}`
CacheKey(parentId, folderName) ==
    (IF parentId = Null THEN "root" ELSE parentId) \o "-" \o folderName

CacheHas(cache, key) == \E e \in cache : e.key = key

CacheGet(cache, key) == (CHOOSE e \in cache : e.key = key).value

CacheSet(cache, key, value) ==
    {e \in cache : e.key # key} \cup {[key |-> key, value |-> value]}

LevelTypes == <<"area", "stack", "notebook">>

RECURSIVE LevelTasks(_, _, _, _)
\* The loops of createFolderStructure over one level of the tree: the
\* getOrCreateFolder calls they make, in order, each with the index of the
\* call that yields its parent folder and the node whose folderMap entry it
\* sets
LevelTasks(nodes, level, parentIdx, acc) ==
    IF nodes = <<>> THEN acc
    ELSE LET node == Head(nodes)
             own == Append(acc, [name |-> node.name, parent |-> parentIdx,
                                 nodeId |-> node.id])
             withNode == IF node.type # LevelTypes[level] THEN acc
                         ELSE IF level < 3 /\ node.hasChildren
                         THEN LevelTasks(node.children, level + 1, Len(own), own)
                         ELSE own
         IN LevelTasks(Tail(nodes), level, parentIdx, withNode)

\* createFolderStructure: root folder, Notes folder, then the levels
FolderTasks(nodes) ==
    LevelTasks(nodes, 1, 2,
               << [name |-> ROOT_FOLDER_NAME, parent |-> 0, nodeId |-> ""],
                  [name |-> NOTES_FOLDER_NAME, parent |-> 1, nodeId |-> ""] >>)

\* folderMap.get(nodeId) once every call of createFolderStructure returned;
\* a later folderMap.set of the same node id replaces the earlier one
FolderMapGet(tasks, resolved, nodeId) ==
    LET hits == {i \in 1..Len(tasks) : tasks[i].nodeId = nodeId}
    IN IF hits = {} THEN Null
       ELSE resolved[CHOOSE i \in hits : \A j \in hits : j <= i]

RECURSIVE serviceFindNotebookForNote(_, _, _)
\* GoogleDriveService.findNotebookForNote: three nested loops, the innermost
\* testing noteIds; depth is 1 for areas
serviceFindNotebookForNote(nodes, noteId, depth) ==
    IF nodes = <<>> THEN Null
    ELSE LET node == Head(nodes)
             here == IF depth = 3
                     THEN IF node.hasNoteIds /\ Includes(node.noteIds, noteId)
                          THEN node.id ELSE Null
                     ELSE IF node.hasChildren
                     THEN serviceFindNotebookForNote(node.children, noteId,
                                                     depth + 1)
                     ELSE Null
         IN IF here # Null THEN here
            ELSE serviceFindNotebookForNote(Tail(nodes), noteId, depth)

\* The character classes of the titles that occur in the model
TitleShape(title) ==
    CASE title = "Heart Failure" -> <<Run("a", 5), Run(" ", 1), Run("a", 7)>>
      [] title = "New Note" -> <<Run("a", 3), Run(" ", 1), Run("a", 4)>>
      [] title = "Renamed" -> <<Run("a", 7)>>
      [] OTHER -> <<Run("a", 1)>>

\* sanitizeFilename(note.title) + '.md'
FileNameOf(title) ==
    [of |-> title, stem |-> sanitizeFilename(TitleShape(title)), ext |-> ".md"]

\* One invocation of syncAll: its arguments, the index k of the note being
\* published, the request it awaits (pc), the locals of the saveNote and
\* createFolderStructure calls in progress, and what it has done so far
NewRun(id, ns, as) ==
    [id |-> id, notes |-> ns, areas |-> as, k |-> 1, pc |-> "loop",
     resolved |-> <<>>, notebookId |-> Null, folder |-> Null,
     fileId |-> Null, token |-> Null, outcome |-> "running",
     published |-> <<>>, skipped |-> <<>>, failed |-> <<>>, failedAt |-> 0,
     flagged |-> FALSE, received |-> 0, reqSession |-> 0]

\* Variant of Reject without the finally block of syncAll
Reject_KeepsSyncing(r, st, tr, error) ==
    [run |-> [r EXCEPT !.pc = "done", !.outcome = "rejected",
                       !.failed = Append(@, r.k), !.failedAt = r.k],
     status |-> [st EXCEPT !.error = ErrorMessage(error)],
     trace |-> tr]

\* A publish throws: catch of saveNote (590-594), then catch and finally of
\* syncAll (645-652); the invocation rejects
Reject(r, st, tr, error) ==
    [run |-> [r EXCEPT !.pc = "done", !.outcome = "rejected",
                       !.failed = Append(@, r.k), !.failedAt = r.k],
     status |-> [st EXCEPT !.error = ErrorMessage(error),
                           !.isSyncing = FALSE],
     trace |-> tr]

\* The session a request or a cache answer belongs to; 0 when disconnected
SessionOf(st, tr) == IF st.isConnected THEN tr.session ELSE 0

\* A search-or-create round trip for a cache key is started in a session;
\* retrips holds the pairs for which this is not the first one
Trip(tr, session, key) ==
    LET t == [session |-> session, key |-> key]
    IN [tr EXCEPT !.trips = @ \cup {t},
                  !.retrips = IF t \in tr.trips THEN @ \cup {t} ELSE @]

\* A resolution is answered from the cache in a session; stale holds the
\* answers whose entry was set by a request of another session, or of none
Answer(tr, session, key, id) ==
    LET a == [session |-> session, key |-> key, id |-> id]
    IN [tr EXCEPT !.answers = @ \cup {a},
                  !.stale = IF [key |-> key, session |-> session] \in tr.cachedIn
                            THEN @ ELSE @ \cup {a}]

\* Variant of NoNotebook that leaves the loop of syncAll at the note
NoNotebook_LeavesLoop(r) ==
    [r EXCEPT !.k = Len(r.notes) + 1, !.skipped = Append(@, r.k)]

\* saveNote finds no notebook for the note: it warns and returns (525-529),
\* and the loop of syncAll goes on to the next note
NoNotebook(r) ==
    [r EXCEPT !.k = r.k + 1, !.skipped = Append(@, r.k)]

RECURSIVE RunSteps(_, _, _, _, _)
\* The code an invocation runs without suspending: from the head of the loop
\* of syncAll (pc "loop") or from the next getOrCreateFolder call of
\* createFolderStructure (pc "folders") up to the next remote request or to
\* the end of the invocation
RunSteps(r, cache, st, t, tr) ==
    LET tasks == FolderTasks(r.areas)
    IN IF r.pc = "loop"
       THEN IF r.k > Len(r.notes)
            THEN [run |-> [r EXCEPT !.pc = "done", !.outcome = "resolved"],
                  status |-> [st EXCEPT !.lastSync = NewDate(t),
                                        !.isSyncing = FALSE],
                  trace |-> tr]
            ELSE IF ~st.isConnected
            THEN Reject(r, st, tr,
                        [isError |-> TRUE, message |-> NotConnectedMessage])
            ELSE LET nb == serviceFindNotebookForNote(r.areas,
                                                      r.notes[r.k].id, 1)
                 IN IF nb = Null \/ nb = ""
                    THEN RunSteps(NoNotebook(r), cache, st, t, tr)
                    ELSE RunSteps([r EXCEPT !.pc = "folders",
                                            !.resolved = <<>>,
                                            !.notebookId = nb],
                                  cache, st, t, tr)
       ELSE IF r.pc = "folders"
       THEN IF Len(r.resolved) = Len(tasks)
            THEN LET parentFolderId ==
                         FolderMapGet(tasks, r.resolved, r.notebookId)
                 IN IF parentFolderId = Null
                    THEN RunSteps([r EXCEPT !.pc = "loop", !.k = r.k + 1,
                                            !.skipped = Append(@, r.k)],
                                  cache, st, t, tr)
                    ELSE [run |-> [r EXCEPT !.pc = "fileList",
                                            !.folder = parentFolderId,
                                            !.reqSession = SessionOf(st, tr)],
                          status |-> st, trace |-> tr]
            ELSE LET task == tasks[Len(r.resolved) + 1]
                     parentId == IF task.parent = 0 THEN Null
                                 ELSE r.resolved[task.parent]
                     key == CacheKey(parentId, task.name)
                 IN IF CacheHas(cache, key)
                    THEN RunSteps(
                             [r EXCEPT !.resolved =
                                          Append(@, CacheGet(cache, key))],
                             cache, st, t,
                             Answer(tr, SessionOf(st, tr), key,
                                    CacheGet(cache, key)))
                    ELSE [run |-> [r EXCEPT !.pc = "folderList",
                                            !.reqSession = SessionOf(st, tr)],
                          status |-> st,
                          trace |-> Trip(tr, SessionOf(st, tr), key)]
       ELSE [run |-> r, status |-> st, trace |-> tr]

\* An invocation that has returned: its locals are gone
Returned(r) ==
    [r EXCEPT !.resolved = <<>>, !.notebookId = Null, !.folder = Null,
              !.fileId = Null, !.token = Null, !.received = 0,
              !.reqSession = 0]

\* What an action leaves behind: the invocation, the status and the history
Install(i, res) ==
    /\ syncRuns' = [j \in 1..Len(syncRuns) \cup {i} |->
                       IF j # i THEN syncRuns[j]
                       ELSE IF res.run.pc = "done" THEN Returned(res.run)
                       ELSE IF i \in DOMAIN syncRuns
                       THEN [res.run EXCEPT !.received = @ + 1]
                       ELSE res.run]
    /\ syncStatus' = res.status
    /\ trace' = res.trace

\* A request of a session fails; a request sent without a session, or an
\* upload sent without a token, always fails
Fault(r, tr) ==
    IF (r.pc = "upload" /\ r.token # Null)
       \/ (r.pc # "upload" /\ r.reqSession # 0)
    THEN [tr EXCEPT !.faults = @ + 1] ELSE tr

\* syncAll(notes, areas) up to its first remote request (part_002 631-642)
syncAll(ns, as) ==
    /\ Len(syncRuns) < MaxInvocations
    /\ LET i == Len(syncRuns) + 1
           r == NewRun(i, ns, as)
       IN IF ~syncStatus.isConnected
          THEN Install(i, [run |-> [r EXCEPT !.pc = "done",
                                             !.outcome = "rejected"],
                           status |-> syncStatus, trace |-> trace])
          ELSE Install(i, RunSteps([r EXCEPT !.flagged = TRUE], folderCache,
                                   [syncStatus EXCEPT !.isSyncing = TRUE,
                                                      !.error = Null],
                                   now, trace))
    /\ UNCHANGED <<appVars, clockVars, config, accessToken, folderCache,
                   syncCalls, drive, ghostVars, fn, viewVars>>

\* The getOrCreateFolder call an invocation is suspended in
PendingTask(r) == FolderTasks(r.areas)[Len(r.resolved) + 1]

PendingParentId(r) ==
    IF PendingTask(r).parent = 0 THEN Null
    ELSE r.resolved[PendingTask(r).parent]

PendingKey(r) == CacheKey(PendingParentId(r), PendingTask(r).name)

\* The folders drive.files.list returns for the query of getOrCreateFolder:
\* the name, and the parent when one is given (part_002 327-329)
FoldersMatching(folderName, parentId) ==
    {f \in drive.folders :
        f.name = folderName /\ (parentId = Null \/ f.parent = parentId)}

\* this.folderCache.set(cacheKey, folderId), then the rest of the invocation
FolderResolved(i, folderId) ==
    LET r == syncRuns[i]
        cache == CacheSet(folderCache, PendingKey(r), folderId)
        tr == [trace EXCEPT
                  !.cachedIn = {c \in @ : c.key # PendingKey(r)} \cup
                               {[key |-> PendingKey(r),
                                 session |-> r.reqSession]},
                  !.answers = @ \cup
                               {[session |-> SessionOf(syncStatus, trace),
                                 key |-> PendingKey(r), id |-> folderId]}]
    IN /\ folderCache' = cache
       /\ Install(i, RunSteps([r EXCEPT !.pc = "folders",
                                        !.resolved = Append(@, folderId)],
                              cache, syncStatus, now, tr))

\* The response to the search of getOrCreateFolder (part_002 332-343), or
\* its rejection (364-367)
folderListResponse(i, ok) ==
    LET r == syncRuns[i]
    IN /\ r.pc = "folderList"
       /\ ok => r.reqSession # 0
       /\ IF ~ok
          THEN /\ r.reqSession # 0 => trace.faults < MaxFaults
               /\ Install(i, Reject(r, syncStatus, Fault(r, trace),
                                    GapiRejection))
               /\ UNCHANGED <<folderCache, drive>>
          ELSE LET found == FoldersMatching(PendingTask(r).name,
                                            PendingParentId(r))
               IN IF found # {}
                  THEN /\ \E f \in found : FolderResolved(i, f.id)
                       /\ UNCHANGED drive
                  ELSE /\ Install(i, [run |-> [r EXCEPT !.pc = "folderCreate",
                                                    !.reqSession =
                                                       SessionOf(syncStatus,
                                                                 trace)],
                                      status |-> syncStatus, trace |-> trace])
                       /\ UNCHANGED <<folderCache, drive>>
       /\ UNCHANGED <<appVars, clockVars, config, accessToken, syncCalls,
                      ghostVars, fn, viewVars>>

DriveId(n) == "f" \o ToString(n)

\* The response to drive.files.create of getOrCreateFolder (355-363)
folderCreateResponse(i, ok) ==
    LET r == syncRuns[i]
    IN /\ r.pc = "folderCreate"
       /\ ok => r.reqSession # 0
       /\ IF ~ok
          THEN /\ r.reqSession # 0 => trace.faults < MaxFaults
               /\ Install(i, Reject(r, syncStatus, Fault(r, trace),
                                    GapiRejection))
               /\ UNCHANGED <<folderCache, drive>>
          ELSE /\ drive' = [drive EXCEPT
                     !.folders = @ \cup {[id |-> DriveId(drive.nextId),
                                          name |-> PendingTask(r).name,
                                          parent |-> PendingParentId(r)]},
                     !.nextId = @ + 1]
               /\ FolderResolved(i, DriveId(drive.nextId))
       /\ UNCHANGED <<appVars, clockVars, config, accessToken, syncCalls,
                      ghostVars, fn, viewVars>>

\* The files drive.files.list returns for the query of saveNote (545)
FilesMatching(filename, parentFolderId) ==
    {f \in drive.files : f.name = filename /\ f.parent = parentFolderId}

\* The response to the file search of saveNote (546-549); the upload request
\* is built and sent with the access token held at that moment (551-585)
fileListResponse(i, ok) ==
    LET r == syncRuns[i]
        found == FilesMatching(FileNameOf(r.notes[r.k].title), r.folder)
    IN /\ r.pc = "fileList"
       /\ ok => r.reqSession # 0
       /\ IF ~ok
          THEN /\ r.reqSession # 0 => trace.faults < MaxFaults
               /\ Install(i, Reject(r, syncStatus, Fault(r, trace),
                                    GapiRejection))
          ELSE \E fileId \in IF found = {} THEN {Null}
                             ELSE {f.id : f \in found} :
                  Install(i, [run |-> [r EXCEPT !.pc = "upload",
                                                !.fileId = fileId,
                                                !.token = accessToken,
                                                !.reqSession =
                                                   SessionOf(syncStatus,
                                                             trace)],
                              status |-> syncStatus, trace |-> trace])
       /\ UNCHANGED <<appVars, clockVars, config, accessToken, folderCache,
                      syncCalls, drive, ghostVars, fn, viewVars>>

\* Variant of Uploaded that creates a file whether or not one was found
Uploaded_AlwaysCreates(r) ==
    [drive EXCEPT !.files = @ \cup
        {[id |-> DriveId(drive.nextId),
          name |-> FileNameOf(r.notes[r.k].title),
          parent |-> r.folder, note |-> r.notes[r.k].id,
          version |-> 1]},
                  !.nextId = @ + 1]

\* The remote store after the upload of saveNote took effect: PATCH of the
\* file found (567-574), or POST of a new file (577-584)
Uploaded(r) ==
    IF r.fileId # Null
    THEN [drive EXCEPT !.files =
             {IF f.id = r.fileId
              THEN [f EXCEPT !.name = FileNameOf(r.notes[r.k].title),
                             !.note = r.notes[r.k].id,
                             !.version = @ + 1]
              ELSE f : f \in drive.files}]
    ELSE [drive EXCEPT !.files = @ \cup
             {[id |-> DriveId(drive.nextId),
               name |-> FileNameOf(r.notes[r.k].title),
               parent |-> r.folder, note |-> r.notes[r.k].id,
               version |-> 1]},
                       !.nextId = @ + 1]

\* The statements of saveNote after the upload (587-589), then the next
\* iteration of the loop of syncAll
AfterUpload(i, written, tr) ==
    LET r == syncRuns[i]
    IN Install(i, RunSteps([r EXCEPT !.pc = "loop", !.k = r.k + 1,
                                     !.published = IF written
                                                   THEN Append(@, r.k) ELSE @,
                                     !.failed = IF written THEN @
                                                ELSE Append(@, r.k)],
                           folderCache,
                           [syncStatus EXCEPT !.lastSync = NewDate(now),
                                              !.error = Null],
                           now, tr))

\* The outcome of the fetch of saveNote: the promise resolves with a
\* response, whatever its HTTP status, or rejects when the request could not
\* be made.  saveNote does not look at the response.
uploadResponse(i, outcome) ==
    LET r == syncRuns[i]
    IN /\ r.pc = "upload"
       /\ CASE outcome = "ok" ->
                 /\ r.token # Null
                 /\ drive' = Uploaded(r)
                 /\ AfterUpload(i, TRUE, trace)
            [] outcome = "httpError" ->
                 /\ r.token # Null => trace.faults < MaxFaults
                 /\ UNCHANGED drive
                 /\ AfterUpload(i, FALSE, Fault(r, trace))
            [] outcome = "networkError" ->
                 /\ trace.faults < MaxFaults
                 /\ r.token # Null
                 /\ UNCHANGED drive
                 /\ Install(i, Reject(r, syncStatus, Fault(r, trace),
                                      FetchRejection))
       /\ UNCHANGED <<appVars, clockVars, config, accessToken, folderCache,
                      syncCalls, ghostVars, fn, viewVars>>

\* getSyncStatus (677-679): a copy of the status
getSyncStatus == [f \in DOMAIN syncStatus |-> syncStatus[f]]

\* ------------------------------------------------------------------------
\* The service driven by its callers: the sign-in button, the auto-sync
\* timer and the manual sync button, and the status poll
\* ------------------------------------------------------------------------
\* The tree and the notes after removing the notebook 'anatomia-avancada'
OneNotebookAreas ==
    RemoveChildUpdateNode(AREAS_INITIAL, "anatomia-stack", "anatomia-avancada")

OneNotebookNotes == FilterNotes(ALL_NOTES_INITIAL, {"hypertension-note"})

\* The (notes, areas) pair the callers pass: after handleAddNote at time 0
\* on a notebook that is gone and handleAddNote at time 1 on the remaining
\* notebook.  The first and the third note are in the notebook, the second
\* note is in no notebook.
Snapshots ==
    { [notes |-> PrependNote(newNote(1),
                     PrependNote(newNote(0), OneNotebookNotes)),
       areas |-> AddNoteUpdateNode(
                     AddNoteUpdateNode(OneNotebookAreas, StaleId,
                                       newNote(0).id),
                     "anatomia-basica", newNote(1).id)] }

InitDrive ==
    /\ InitCommon
    /\ config = [clientId |-> "client-id", apiKey |-> "api-key"]

DriveSignIn ==
    \E response \in {[error |-> TRUE, access_token |-> Null],
                     [error |-> FALSE, access_token |-> "token"]} :
        /\ response.error \/ syncStatus.isConnected
              \/ trace.session < MaxSessions
        /\ tokenCallback(response)
        /\ response.error => ~trace.denied
        /\ trace' = [trace EXCEPT
              !.session = IF ~response.error /\ ~syncStatus.isConnected
                          THEN @ + 1 ELSE @,
              !.denied = response.error]
        /\ UNCHANGED drive

DriveSignOut ==
    /\ signOut
    /\ trace' = [trace EXCEPT !.cachedIn = {}]
    /\ UNCHANGED drive

\* handleManualSync of the SyncStatus component (part_001 617-632), with a
\* status that was polled after the last change of the service
handleManualSync(ns, as) ==
    /\ ~(~syncStatus.isConnected \/ syncStatus.isSyncing)
    /\ syncAll(ns, as)

ManualSync == \E snap \in Snapshots : handleManualSync(snap.notes, snap.areas)

Running == {i \in 1..Len(syncRuns) : syncRuns[i].outcome = "running"}

FolderListResponds ==
    \E i \in Running : \E ok \in BOOLEAN : folderListResponse(i, ok)

FolderCreateResponds ==
    \E i \in Running : \E ok \in BOOLEAN : folderCreateResponse(i, ok)

FileListResponds ==
    \E i \in Running : \E ok \in BOOLEAN : fileListResponse(i, ok)

UploadResponds ==
    \E i \in Running : \E outcome \in {"ok", "httpError", "networkError"} :
        uploadResponse(i, outcome)

\* The sign-in button pressed while no invocation is in progress
SignInWhenIdle == Running = {} /\ DriveSignIn

NextDrive ==
    \/ SignInWhenIdle
    \/ DriveSignOut
    \/ ManualSync
    \/ FolderListResponds
    \/ FolderCreateResponds
    \/ FileListResponds
    \/ UploadResponds

SpecDrive == InitDrive /\ [][NextDrive]_vars

\* ------------------------------------------------------------------------
\* The service driven by the auto-sync timer, whose callback calls syncAll
\* whatever the state of the service (App.tsx 183-190), and by the sign-in
\* button at any moment; each invocation is followed over its first
\* MaxResponses responses
\* ------------------------------------------------------------------------
MaxResponses == 2

AutoSyncCall == \E snap \in Snapshots : syncAll(snap.notes, snap.areas)

Followed == {i \in Running : syncRuns[i].received < MaxResponses}

EarlyFolderListResponds ==
    \E i \in Followed : \E ok \in BOOLEAN : folderListResponse(i, ok)

EarlyFolderCreateResponds ==
    \E i \in Followed : \E ok \in BOOLEAN : folderCreateResponse(i, ok)

NextOverlap ==
    \/ DriveSignIn
    \/ DriveSignOut
    \/ AutoSyncCall
    \/ EarlyFolderListResponds
    \/ EarlyFolderCreateResponds

SpecOverlap == InitDrive /\ [][NextOverlap]_vars

\* ------------------------------------------------------------------------
\* Claims about the service
\* ------------------------------------------------------------------------
\* C11: within one connected session a (parent, name) pair gets exactly one
\* search-or-create round trip, and every resolution of the pair in that
\* session yields the same folder id.
C11_OneRoundTripPerPair ==
    /\ \A t \in trace.retrips : t.session = 0
    /\ \A a \in trace.answers :
          a.session # 0 =>
             /\ [session |-> a.session, key |-> a.key] \in trace.trips
             /\ \A b \in trace.answers :
                   (b.session = a.session /\ b.key = a.key) => b.id = a.id

\* A step in which an authorization attempt ends in success
SignInSucceeds == trace'.session > trace.session

\* A step in which an authorization attempt ends in failure or denial
SignInDenied == trace'.denied /\ ~trace.denied

\* C12: the connection starts disconnected; an authorization that succeeds
\* ends connected, and an authorization that fails or is denied ends in the
\* error state: the failure is recorded in the sync status and isConnected
\* is false.
C12_ConnectEndsConnectedOrError ==
    /\ ~syncStatus.isConnected /\ syncStatus.error = Null
    /\ [][/\ SignInSucceeds => syncStatus'.isConnected
          /\ SignInDenied => /\ syncStatus'.error # Null
                             /\ ~syncStatus'.isConnected]_vars

\* A step that is a call of signOut while connected
Disconnects == syncStatus.isConnected /\ ~syncStatus'.isConnected

\* C13: after any disconnect isConnected is false, the credential is
\* cleared and the folder cache is empty, and no folder resolution of a
\* later session is answered with an id that was not cached in that session.
C13_DisconnectForgetsFolders ==
    /\ [](trace.stale = {})
    /\ [][Disconnects => /\ ~syncStatus'.isConnected
                         /\ accessToken' = Null
                         /\ folderCache' = {}]_vars

\* C14: every syncAll invocation that set isSyncing clears it when it ends,
\* by completion or by a failed publish: while no invocation is running,
\* isSyncing is false.
C14_SyncingFlagCleared == Running = {} => ~syncStatus.isSyncing

\* Witness of C14: one invocation that set the flag has ended by a failed
\* publish and another one by completion
C14_Witness ==
    /\ Running = {}
    /\ \E i \in DOMAIN syncRuns :
          /\ syncRuns[i].flagged
          /\ syncRuns[i].outcome = "rejected"
          /\ syncRuns[i].failedAt > 0
    /\ \E i \in DOMAIN syncRuns :
          syncRuns[i].flagged /\ syncRuns[i].outcome = "resolved"

\* The notes of an invocation are handled in collection order
Ascending(s) == \A a, b \in 1..Len(s) : a < b => s[a] < s[b]

\* A step in which the publish of a note by invocation i fails
PublishFails(i) ==
    /\ i \in DOMAIN syncRuns
    /\ syncRuns'[i].failed # syncRuns[i].failed

\* C15: syncAll publishes the notes one at a time in collection order; when
\* the publish of note k fails, no later note is published in that
\* invocation, the error is recorded in syncStatus.error and the invocation
\* rejects.
C15_FailureAbortsLoop ==
    /\ [](\A i \in DOMAIN syncRuns :
             /\ Ascending(syncRuns[i].published)
             /\ \A a \in 1..Len(syncRuns[i].failed) :
                   \A b \in 1..Len(syncRuns[i].published) :
                       syncRuns[i].published[b] < syncRuns[i].failed[a])
    /\ [][\A i \in DOMAIN syncRuns :
             PublishFails(i) => /\ syncRuns'[i].outcome = "rejected"
                                /\ syncStatus'.error # Null]_vars

\* The notes of an invocation that some notebook of its areas lists
Publishable(r) ==
    {j \in 1..Len(r.notes) :
        serviceFindNotebookForNote(r.areas, r.notes[j].id, 1) \notin {Null, ""}}

PublishSucceeds(i) ==
    /\ i \in DOMAIN syncRuns
    /\ syncRuns'[i].published # syncRuns[i].published

\* C17: a successful publish sets syncStatus.error to null and stamps
\* lastSync; a failed publish records the error message and leaves lastSync
\* as it was before the attempt (the stamp of the publish before it, when
\* that one completes in the same step); getSyncStatus hands out the status
\* without changing it.
C17_StatusContract ==
    /\ [](getSyncStatus = syncStatus)
    /\ [][\A i \in DOMAIN syncRuns :
             /\ PublishSucceeds(i) =>
                    /\ syncRuns'[i].outcome # "rejected" =>
                           syncStatus'.error = Null
                    /\ syncStatus'.lastSync = NewDate(now)
             /\ PublishFails(i) =>
                    /\ syncStatus'.error \notin {Null, ""}
                    /\ syncStatus'.lastSync =
                           IF PublishSucceeds(i) THEN NewDate(now)
                           ELSE syncStatus.lastSync]_vars

\* The completed publishes of the note with the given id, over all
\* invocations: pairs of an invocation and a position in its published list
PublishesOf(noteId) ==
    {p \in (DOMAIN syncRuns) \X (1..MaxNotes) :
        /\ p[2] <= Len(syncRuns[p[1]].published)
        /\ syncRuns[p[1]].notes[syncRuns[p[1]].published[p[2]]].id = noteId}

\* C18: a publish overwrites the file of that name in the notebook's folder
\* when there is one and creates a file only when there is none: after any
\* number of sequential publishes of a note the folder holds exactly one
\* file of its name, written once per publish.
C18_OneFilePerName ==
    /\ \A f, g \in drive.files :
           (f.name = g.name /\ f.parent = g.parent) => f = g
    /\ \A f \in drive.files :
           /\ \E d \in drive.folders : d.id = f.parent
           /\ f.version = Cardinality(PublishesOf(f.note))
    /\ \A i \in DOMAIN syncRuns :
           \A j \in Range(syncRuns[i].published) :
               Cardinality({f \in drive.files :
                               f.name = FileNameOf(syncRuns[i].notes[j].title)})
                 = 1

\* A note published by two invocations one after the other: its file was
\* created by the first and overwritten by the second
C18_Witness ==
    \E f \in drive.files :
        /\ f.version = 2
        /\ \E i, j \in DOMAIN syncRuns :
               /\ i < j
               /\ \E a \in Range(syncRuns[i].published) :
                      syncRuns[i].notes[a].id = f.note
               /\ \E b \in Range(syncRuns[j].published) :
                      syncRuns[j].notes[b].id = f.note

\* ------------------------------------------------------------------------
\* The application started over a local storage in any condition: each of
\* the two keys never set, holding text that is not JSON, or holding a
\* document written by an earlier run
\* ------------------------------------------------------------------------
StoredNotesDocs ==
    {AbsentDoc, CorruptDoc, Doc(<<>>), Doc(OneNotebookNotes)}

StoredAreasDocs ==
    {AbsentDoc, CorruptDoc, Doc(<<>>), Doc(OneNotebookAreas)}

InitStore ==
    /\ InitButStorage
    /\ localStorage \in [notes : StoredNotesDocs, areas : StoredAreasDocs]
    /\ config = [clientId |-> "", apiKey |-> ""]

SpecStore == InitStore /\ [][Next]_vars

\* The step that mounts App: the load effect and the commits it causes
Mounts == phase = "constructed" /\ phase' = "mounted"

\* Both keys hold a document that parses
StoredPair == \A key \in {"notes", "areas"} :
                 localStorage[key].present /\ localStorage[key].parses

\* C19: the save effect writes after every change of notes or areas but the
\* first, so the state loaded or seeded at startup is not written back by
\* the startup itself; after every later change both stored documents are
\* the current notes and areas.
C19_LoadedStateNotWrittenBack ==
    /\ [][Mounts => localStorage' = localStorage]_vars
    /\ []((phase = "mounted" /\ last.n > 0 /\ last.changed) =>
             localStorage = [notes |-> Doc(notes), areas |-> Doc(areas)])

\* C20: the load yields the stored pair when both documents are there and
\* parse, and otherwise the seed pair, notes and forest alike.
C20_LoadStoredOrSeed ==
    [][Mounts =>
          IF StoredPair
          THEN /\ notes' = localStorage.notes.value
               /\ areas' = localStorage.areas.value
          ELSE /\ notes' = ALL_NOTES_INITIAL
               /\ areas' = AREAS_INITIAL]_vars

\* ------------------------------------------------------------------------
\* Editor: the title of the selected note, shown or being edited
\* ------------------------------------------------------------------------
\* The longest string typed into the title input
MaxTitleLen == 2

\* The number of update-title events of a run
MaxEmits == 2

\* The characters typed: two letters and a white space character
TitleChars == {"a", "b", " "}

RECURSIVE TitlesUpTo(_)
TitlesUpTo(n) ==
    IF n = 0 THEN {<<>>}
    ELSE TitlesUpTo(n - 1) \cup
         {Append(t, c) : t \in {u \in TitlesUpTo(n - 1) : Len(u) = n - 1},
                         c \in TitleChars}

RECURSIVE TrimStart(_)
TrimStart(str) == IF str # <<>> /\ Head(str) = " " THEN TrimStart(Tail(str))
                  ELSE str

RECURSIVE TrimEnd(_)
TrimEnd(str) == IF str # <<>> /\ str[Len(str)] = " "
                THEN TrimEnd(SubSeq(str, 1, Len(str) - 1))
                ELSE str

\* String.prototype.trim
Trim(str) == TrimEnd(TrimStart(str))

\* The literal 'Untitled' of handleTitleBlur
Untitled == <<"U">>

\* The titles a note of the application has: those of the seed and of
\* handleAddNote, and what handleUpdateTitle received, all trimmed and
\* non-empty
NoteTitles == {t \in TitlesUpTo(MaxTitleLen) : t # <<>> /\ Trim(t) = t}

\* The onUpdateTitle prop: handleUpdateTitle (App.tsx 290-296), seen on the
\* note passed to Editor
onUpdateTitle(note, noteId, newTitle) ==
    IF note.present /\ note.id = noteId THEN [note EXCEPT !.title = newTitle]
    ELSE note

\* The effect on [note] (Editor.tsx 1590-1605): the buffer follows the note
\* passed in
NoteEffect(note, titleValue) == IF note.present THEN note.title ELSE titleValue

\* Another note, or none, is selected while the title is shown
NoteSelected(note) ==
    /\ ~editor.isEditingTitle
    /\ note # editor.note
    /\ editor' = [editor EXCEPT !.note = note,
                                !.titleValue = NoteEffect(note, @),
                                !.event = "select"]

\* handleTitleClick (1628-1630); the span is rendered only with a note
handleTitleClick ==
    /\ editor.note.present
    /\ ~editor.isEditingTitle
    /\ editor' = [editor EXCEPT !.isEditingTitle = TRUE, !.event = "click"]

\* handleTitleChange (1632-1634); the input is rendered only while editing
handleTitleChange(value) ==
    /\ editor.note.present
    /\ editor.isEditingTitle
    /\ value # editor.titleValue
    /\ editor' = [editor EXCEPT !.titleValue = value, !.event = "change"]

\* Variant of TitleBlurred that commits the buffer whatever it holds
TitleBlurred_CommitsEmpty(ed) ==
    IF ed.note.present /\ ed.titleValue # ed.note.title
    THEN LET note == onUpdateTitle(ed.note, ed.note.id, Trim(ed.titleValue))
         IN [ed EXCEPT !.isEditingTitle = FALSE,
                       !.emitted = [n |-> @.n + 1, noteId |-> ed.note.id,
                                    newTitle |-> Trim(ed.titleValue)],
                       !.note = note,
                       !.titleValue = NoteEffect(note, @)]
    ELSE [ed EXCEPT !.isEditingTitle = FALSE]

\* The body of handleTitleBlur (1636-1643) with the re-render its
\* onUpdateTitle call causes
TitleBlurred(ed) ==
    IF ed.note.present /\ Trim(ed.titleValue) # <<>>
       /\ ed.titleValue # ed.note.title
    THEN LET note == onUpdateTitle(ed.note, ed.note.id, Trim(ed.titleValue))
         IN [ed EXCEPT !.isEditingTitle = FALSE,
                       !.emitted = [n |-> @.n + 1, noteId |-> ed.note.id,
                                    newTitle |-> Trim(ed.titleValue)],
                       !.note = note,
                       !.titleValue = NoteEffect(note, @)]
    ELSE IF Trim(ed.titleValue) = <<>>
    THEN [ed EXCEPT !.isEditingTitle = FALSE,
                    !.titleValue = IF ed.note.present /\ ed.note.title # <<>>
                                   THEN ed.note.title ELSE Untitled]
    ELSE [ed EXCEPT !.isEditingTitle = FALSE]

handleTitleBlur ==
    /\ editor.note.present
    /\ editor.isEditingTitle
    /\ TitleBlurred(editor).emitted.n <= MaxEmits
    /\ editor' = [TitleBlurred(editor) EXCEPT !.event = "blur"]

\* handleTitleKeyDown (1645-1653)
handleTitleKeyDown(key) ==
    /\ editor.note.present
    /\ editor.isEditingTitle
    /\ IF key = "Enter"
       THEN /\ TitleBlurred(editor).emitted.n <= MaxEmits
            /\ editor' = [TitleBlurred(editor) EXCEPT !.event = "Enter"]
       ELSE IF key = "Escape"
       THEN editor' = [editor EXCEPT
                          !.titleValue = IF editor.note.present
                                         THEN editor.note.title ELSE <<>>,
                          !.isEditingTitle = FALSE,
                          !.event = "Escape"]
       ELSE FALSE

EditorNotes ==
    {NoNote} \cup {[present |-> TRUE, id |-> "note-1", title |-> t] :
                      t \in NoteTitles}

SelectNote ==
    /\ \E note \in EditorNotes :
          /\ editor.note.present => (~note.present \/ note = editor.note)
          /\ NoteSelected(note)
    /\ UNCHANGED <<appVars, clockVars, svcVars, ghostVars, fn, mindmap>>

TitleClick ==
    /\ handleTitleClick
    /\ UNCHANGED <<appVars, clockVars, svcVars, ghostVars, fn, mindmap>>

TitleChange ==
    /\ \E value \in TitlesUpTo(MaxTitleLen) : handleTitleChange(value)
    /\ UNCHANGED <<appVars, clockVars, svcVars, ghostVars, fn, mindmap>>

TitleBlur ==
    /\ handleTitleBlur
    /\ UNCHANGED <<appVars, clockVars, svcVars, ghostVars, fn, mindmap>>

TitleEnter ==
    /\ handleTitleKeyDown("Enter")
    /\ UNCHANGED <<appVars, clockVars, svcVars, ghostVars, fn, mindmap>>

TitleEscape ==
    /\ handleTitleKeyDown("Escape")
    /\ UNCHANGED <<appVars, clockVars, svcVars, ghostVars, fn, mindmap>>

NextEditor ==
    \/ SelectNote
    \/ TitleClick
    \/ TitleChange
    \/ TitleBlur
    \/ TitleEnter
    \/ TitleEscape

SpecEditor == Init /\ [][NextEditor]_vars

\* A step that handles the named event while the title is being edited
TitleEvent(name) ==
    /\ editor.isEditingTitle
    /\ editor' # editor
    /\ editor'.event = name

\* C21: the title is either shown or edited; blur and Enter leave the
\* editing state, emit update-title(note id, trimmed buffer) only for a
\* buffer that is not empty when trimmed, and put the note's title back
\* into the buffer when it is; Escape leaves the editing state, puts the
\* note's title back and emits nothing.
C21_TitleEditing ==
    [][/\ (TitleEvent("blur") \/ TitleEvent("Enter")) =>
             /\ ~editor'.isEditingTitle
             /\ IF Trim(editor.titleValue) = <<>>
                THEN /\ editor'.emitted = editor.emitted
                     /\ editor'.note = editor.note
                     /\ editor'.titleValue = editor.note.title
                ELSE \/ /\ editor'.emitted = editor.emitted
                        /\ editor'.note = editor.note
                     \/ /\ editor'.emitted.n = editor.emitted.n + 1
                        /\ editor'.emitted.noteId = editor.note.id
                        /\ editor'.emitted.newTitle = Trim(editor.titleValue)
       /\ TitleEvent("Escape") =>
             /\ ~editor'.isEditingTitle
             /\ editor'.titleValue = editor.note.title
             /\ editor'.emitted = editor.emitted
             /\ editor'.note = editor.note
       /\ (~editor.isEditingTitle /\ editor'.isEditingTitle) =>
             editor'.event = "click"]_vars

\* A title was committed from the buffer, and a later edit of it was
\* abandoned with Escape
C21_Witness ==
    /\ editor.event = "Escape"
    /\ ~editor.isEditingTitle
    /\ editor.emitted.n > 0
    /\ editor.emitted.newTitle = editor.note.title
    /\ editor.titleValue = editor.note.title

\* ------------------------------------------------------------------------
\* MindmapGenerator: diagram type, Mermaid code, debounced render, insert
\* ------------------------------------------------------------------------
\* The number of mermaid.render calls of a run
MaxRenders == 3

\* The number of changes typed into the code editor in a run
MaxEdits == 2

DiagramTypeIds == {"flowchart"}

\* DIAGRAM_TYPES.find(d => d.type === selectedType)?.template
TemplateOf(type) == "graph TD; A-->B"

\* The texts typed into the code editor: empty, two diagrams and a text
\* that is not a diagram
MermaidCodes == {"", "graph TD; A-->B", "graph TD; B-->C", "graph TD; A--"}

\* mermaid.render resolves for a diagram and rejects for any other text
Renders(code) == code \in {"graph TD; A-->B", "graph TD; B-->C"}

\* The svg mermaid.render resolves with
Svg(code) == "<svg>" \o code \o "</svg>"

\* The render effect (part_000 219-254) after a change of mermaidCode: the
\* cleanup clears the pending timer and a new one is set with the new code
RenderEffect(m, code) ==
    IF code = m.mermaidCode THEN m
    ELSE [m EXCEPT !.mermaidCode = code,
                   !.timer = [armed |-> TRUE, code |-> code],
                   !.latest.current = FALSE]

\* The isOpen prop becomes true
OpenGenerator ==
    /\ ~mindmap.isOpen
    /\ mindmap' = [mindmap EXCEPT !.isOpen = TRUE, !.event = "open"]

\* onClose (Cancel, the close button, the backdrop)
CloseGenerator ==
    /\ mindmap.isOpen
    /\ mindmap' = [mindmap EXCEPT !.isOpen = FALSE, !.event = "close"]

\* setSelectedType(diagram.type) (347) and the template effect (202-208)
SelectType(type) ==
    /\ mindmap.isOpen
    /\ mindmap.selectedType = Null
    /\ mindmap' = [RenderEffect([mindmap EXCEPT !.error = ""],
                                TemplateOf(type))
                      EXCEPT !.selectedType = type, !.event = "select"]

\* handleCodeChange (297-299)
handleCodeChange(value) ==
    /\ mindmap.isOpen
    /\ mindmap.selectedType # Null
    /\ value # mindmap.mermaidCode
    /\ mindmap.edits < MaxEdits
    /\ mindmap' = [RenderEffect(mindmap, value)
                      EXCEPT !.edits = @ + 1, !.event = "change"]

\* handleBack (278-283)
handleBack ==
    /\ mindmap.isOpen
    /\ mindmap.selectedType # Null
    /\ mindmap' = [RenderEffect([mindmap EXCEPT !.error = "", !.preview = ""],
                                "")
                      EXCEPT !.selectedType = Null, !.event = "back"]

\* The insert button is rendered and not disabled (425-439)
InsertEnabled ==
    /\ mindmap.isOpen
    /\ mindmap.selectedType # Null
    /\ mindmap.mermaidCode # ""
    /\ mindmap.error = ""

\* handleInsert (267-272)
handleInsert ==
    /\ InsertEnabled
    /\ mindmap' = [mindmap EXCEPT !.inserted = mindmap.mermaidCode,
                                  !.isOpen = FALSE, !.event = "insert"]

\* The debounce timer fires: renderDiagram (234-247) up to its await
DebounceTimerFires ==
    /\ mindmap.timer.armed
    /\ IF mindmap.timer.code = ""
          \/ ~(mindmap.isOpen /\ mindmap.selectedType # Null)
       THEN mindmap' = [mindmap EXCEPT !.timer.armed = FALSE,
                                      !.event = "timer"]
       ELSE /\ mindmap.started < MaxRenders
            /\ mindmap' =
                  [mindmap EXCEPT
                      !.timer.armed = FALSE,
                      !.error = "",
                      !.started = @ + 1,
                      !.renders = @ \cup {[n |-> mindmap.started + 1,
                                           code |-> mindmap.timer.code]},
                      !.latest = [n |-> mindmap.started + 1,
                                  code |-> mindmap.timer.code,
                                  current |-> TRUE],
                      !.event = "timer"]

\* Variant of RenderSettled that drops the result of a render that is not
\* the latest one started
RenderSettled_LatestOnly(m, r) ==
    IF r.n # m.latest.n THEN [m EXCEPT !.renders = @ \ {r}]
    ELSE IF Renders(r.code)
    THEN [m EXCEPT !.renders = @ \ {r}, !.preview = Svg(r.code),
                   !.lastDone = "ok", !.failedSince = FALSE, !.done = r.n]
    ELSE [m EXCEPT !.renders = @ \ {r},
                   !.error = "Rendering error: Parse error",
                   !.preview = "", !.lastDone = "failed",
                   !.failedSince = TRUE, !.done = r.n]

\* The rest of renderDiagram once mermaid.render has settled (240-246)
RenderSettled(m, r) ==
    IF Renders(r.code)
    THEN [m EXCEPT !.renders = @ \ {r}, !.preview = Svg(r.code),
                   !.lastDone = "ok", !.failedSince = FALSE, !.done = r.n]
    ELSE [m EXCEPT !.renders = @ \ {r},
                   !.error = "Rendering error: Parse error",
                   !.preview = "", !.lastDone = "failed",
                   !.failedSince = TRUE, !.done = r.n]

RenderCompletes ==
    \E r \in mindmap.renders :
        mindmap' = [RenderSettled(mindmap, r) EXCEPT !.event = "render"]

MindmapFrame ==
    UNCHANGED <<appVars, clockVars, svcVars, ghostVars, fn, editor>>

GeneratorOpened == OpenGenerator /\ MindmapFrame

GeneratorClosed == CloseGenerator /\ MindmapFrame

TypeSelected == (\E type \in DiagramTypeIds : SelectType(type)) /\ MindmapFrame

CodeChanged ==
    (\E value \in MermaidCodes : handleCodeChange(value)) /\ MindmapFrame

BackClicked == handleBack /\ MindmapFrame

InsertClicked == handleInsert /\ MindmapFrame

DebounceElapsed == DebounceTimerFires /\ MindmapFrame

RenderDone == RenderCompletes /\ MindmapFrame

NextMindmap ==
    \/ GeneratorOpened
    \/ GeneratorClosed
    \/ TypeSelected
    \/ CodeChanged
    \/ BackClicked
    \/ InsertClicked
    \/ DebounceElapsed
    \/ RenderDone

SpecMindmap == Init /\ [][NextMindmap]_vars

\* A step in which a render settles with a failure
RenderFails ==
    /\ mindmap'.event = "render"
    /\ mindmap'.done # mindmap.done
    /\ mindmap'.lastDone = "failed"

\* C22: insert is enabled only when the code is not empty and the most
\* recent render attempt succeeded; a render failure leaves the code as it
\* is, and insert stays disabled from a failure until a render succeeds.
C22_InsertOnlyAfterSuccess ==
    /\ [](InsertEnabled =>
             /\ mindmap.mermaidCode # ""
             /\ mindmap.lastDone = "ok")
    /\ [](mindmap.failedSince => ~InsertEnabled)
    /\ [][RenderFails => mindmap'.mermaidCode = mindmap.mermaidCode]_vars

\* Every render started has settled and no debounce timer is pending
RendersSettled == mindmap.renders = {} /\ ~mindmap.timer.armed

\* C30: once all started renders have settled, the preview and the error
\* are those of the render of the current code: the result of a render
\* started for an older code never replaces that of a newer one.
C30_LatestRenderWins ==
    (/\ RendersSettled
     /\ mindmap.latest.current
     /\ mindmap.latest.code = mindmap.mermaidCode) =>
        IF Renders(mindmap.mermaidCode)
        THEN /\ mindmap.preview = Svg(mindmap.mermaidCode)
             /\ mindmap.error = ""
        ELSE /\ mindmap.preview = ""
             /\ mindmap.error # ""

\* C23: at most one syncAll invocation is in progress at any time.
C23_OneSyncAtATime == Cardinality(Running) <= 1

\* ------------------------------------------------------------------------
\* findPath: the names from a root down to a node, for the breadcrumb
\* ------------------------------------------------------------------------
RECURSIVE findPath(_, _, _)
\* Variant of findPath that takes any non-empty path a subtree returns
findPath_AnySubtreePath(nodes, id, currentPath) ==
    IF nodes = <<>> THEN currentPath
    ELSE LET node == Head(nodes)
             newPath == Append(currentPath, node.name)
             foundPath == IF node.hasChildren
                          THEN findPath(node.children, id, newPath)
                          ELSE <<>>
         IN IF node.id = id THEN newPath
            ELSE IF node.hasChildren /\ Len(foundPath) > 0 THEN foundPath
            ELSE findPath(Tail(nodes), id, currentPath)

\* findPath (App.tsx 234-244); the loop over nodes is the recursion on Tail
findPath(nodes, id, currentPath) ==
    IF nodes = <<>> THEN currentPath
    ELSE LET node == Head(nodes)
             newPath == Append(currentPath, node.name)
             foundPath == IF node.hasChildren
                          THEN findPath(node.children, id, newPath)
                          ELSE <<>>
         IN IF node.id = id THEN newPath
            ELSE IF node.hasChildren /\ Len(foundPath) > Len(newPath)
            THEN foundPath
            ELSE findPath(Tail(nodes), id, currentPath)

RECURSIVE NamePaths(_, _)
\* Every node of a forest with the names from its root down to it
NamePaths(nodes, prefix) ==
    IF nodes = <<>> THEN {}
    ELSE LET node == Head(nodes)
             path == Append(prefix, node.name)
         IN {[id |-> node.id, path |-> path]}
            \cup (IF node.hasChildren THEN NamePaths(node.children, path)
                  ELSE {})
            \cup NamePaths(Tail(nodes), prefix)

\* The accumulated paths findPath is called with
PathPrefixes == {<<>>, <<"Medicine">>}

\* C24: for an id of the forest findPath returns the names from a root down
\* to a node with that id, as many as the node is deep; for an id of no node
\* it returns the path accumulated so far, which it was called with.
C24_FindPath ==
    \A id \in NodeIds(areas) \cup {StaleId} :
        \A prefix \in PathPrefixes :
            LET found == findPath(areas, id, prefix)
                paths == {p.path : p \in {q \in NamePaths(areas, prefix) :
                                             q.id = id}}
            IN IF id \in NodeIds(areas)
               THEN found \in paths
               ELSE found = prefix

\* A forest with a notebook three levels down that is not in the first
\* subtree searched, and an id of no node
C24_Witness ==
    /\ StaleId \notin NodeIds(areas)
    /\ findPath(areas, StaleId, <<>>) = <<>>
    /\ \E id \in NodeIds(areas) :
          /\ Len(findPath(areas, id, <<>>)) = 3
          /\ findNodeById(areas, id)[1].type = "notebook"
          /\ id # Flatten(areas)[3].id

\* ------------------------------------------------------------------------
\* The application driven the way the navigation view calls its handlers
\* (part_001 241, 321, 403-440, 486-499): with the ids of the nodes rendered
\* and, for a removal, the id of the node the target is rendered under
\* ------------------------------------------------------------------------
\* node.children?.filter(child => child.type === type) || []
ChildrenOfType(node, type) ==
    IF node.hasChildren
    THEN {c \in Range(node.children) : c.type = type}
    ELSE {}

\* The stacks rendered by AreaItem and the notebooks rendered by StackItem
RenderedStacks == UNION {ChildrenOfType(a, "stack") : a \in Range(areas)}

RenderedNotebooks ==
    UNION {ChildrenOfType(st, "notebook") : st \in RenderedStacks}

\* notes.filter(note => notebook.noteIds?.includes(note.id))
NotesForNotebook(notebook) ==
    {n \in Range(notes) : notebook.hasNoteIds /\ Includes(notebook.noteIds, n.id)}

NavAddArea == OpsLeft /\ handleAddArea

NavAddStack == OpsLeft /\ \E a \in Range(areas) : handleAddStack(a.id)

NavRemoveStack ==
    OpsLeft /\ \E a \in Range(areas) : \E st \in ChildrenOfType(a, "stack") :
        handleRemoveStack(a.id, st.id)

NavAddNotebook ==
    OpsLeft /\ \E st \in RenderedStacks : handleAddNotebook(st.id)

NavRemoveNotebook ==
    OpsLeft /\ \E st \in RenderedStacks :
        \E nb \in ChildrenOfType(st, "notebook") :
            handleRemoveNotebook(st.id, nb.id)

NavAddNote == OpsLeft /\ \E nb \in RenderedNotebooks : handleAddNote(nb.id)

NavRemoveNote ==
    OpsLeft /\ \E nb \in RenderedNotebooks : \E n \in NotesForNotebook(nb) :
        handleRemoveNote(nb.id, n.id)

NextNav ==
    \/ Mount
    \/ NavAddArea
    \/ NavAddStack
    \/ NavRemoveStack
    \/ NavAddNotebook
    \/ NavRemoveNotebook
    \/ NavAddNote
    \/ NavRemoveNote
    \/ ClockTick

SpecNav == Init /\ [][NextNav]_vars

\* The positions, in pre-order, of the nodes whose noteIds hold the id
ReferringNodes(noteId) ==
    {i \in 1..Len(Flatten(areas)) :
        /\ Flatten(areas)[i].hasNoteIds
        /\ Includes(Flatten(areas)[i].noteIds, noteId)}

\* C25: every noteIds entry refers to a note of the collection, and every
\* note of the collection is referred to by exactly one notebook.
C25_ReferentialIntegrity ==
    /\ \A noteId \in NoteIdsIn(areas) : noteId \in NoteIdsOf(notes)
    /\ \A i \in 1..Len(notes) :
           Cardinality(ReferringNodes(notes[i].id)) = 1

\* ------------------------------------------------------------------------
\* Two handler invocations in one batch: both run in the closure of the same
\* render, so both read the areas of that render (App.tsx 420, 497), and
\* React applies the queued updates in order at the next render
\* ------------------------------------------------------------------------
RenderedCalls ==
    {[op |-> "addNote", target |-> nb.id] : nb \in RenderedNotebooks}
    \cup {[op |-> "addNotebook", target |-> st.id] : st \in RenderedStacks}

\* setNotes(prev => [newNote, ...prev]) (482); handleAddNotebook queues none
QueuedNotes(call, prev) ==
    IF call.op = "addNote" THEN PrependNote(newNote(now), prev) ELSE prev

\* setAreas(updateNode(areas)) (420, 497): a value computed from the areas
\* the handler closed over, not an updater
QueuedAreas(call, snapshot) ==
    IF call.op = "addNote"
    THEN AddNoteUpdateNode(snapshot, call.target, newNote(now).id)
    ELSE AppendChildUpdateNode(snapshot, call.target, newNotebook(now))

\* setSelectedNoteId(newNote.id) (500)
QueuedSelected(call, prev) ==
    IF call.op = "addNote" THEN newNote(now).id ELSE prev

\* The tree in which the second update is made to the result of the first
BothApplied(first, second, snapshot) ==
    QueuedAreas(second, QueuedAreas(first, snapshot))

BatchedCalls(first, second) ==
    /\ Ready
    /\ Len(notes) < MaxNotes
    /\ Len(Flatten(areas)) < MaxNodes
    /\ Commit(QueuedNotes(second, QueuedNotes(first, notes)),
              QueuedAreas(second, areas),
              QueuedSelected(second, QueuedSelected(first, selectedNoteId)))
    /\ last' = [Record("batch", first.target, second.target, "", TRUE) EXCEPT
                  !.baseAreas = BothApplied(first, second, areas)]

NavBatch ==
    OpsLeft /\ \E first, second \in RenderedCalls : BatchedCalls(first, second)

NextBatch ==
    \/ Mount
    \/ NavAddStack
    \/ NavAddNotebook
    \/ NavAddNote
    \/ NavRemoveNotebook
    \/ NavBatch
    \/ ClockTick

SpecBatch == Init /\ [][NextBatch]_vars

\* C26: after two tree-mutating handlers were invoked against the same
\* rendered snapshot, the tree holds both updates, and every note of the
\* collection is in the noteIds of some notebook.
C26_NoLostUpdate ==
    last.op = "batch" =>
        /\ areas = last.baseAreas
        /\ \A i \in 1..Len(notes) : ReferringNodes(notes[i].id) # {}

\* ------------------------------------------------------------------------
\* Auto-sync as time passes: the delay of an armed timer elapses, and a
\* timer that is due runs
\* ------------------------------------------------------------------------
\* The delay passed to setTimeout (App.tsx 190) elapses
TimerElapses ==
    /\ autoSyncTimer.armed
    /\ now < autoSyncTimer.due
    /\ now' = autoSyncTimer.due
    /\ UNCHANGED <<ticks, appVars, svcVars, ghostVars, fn, viewVars>>

NextLive ==
    \/ Mount
    \/ SignIn
    \/ SignOut
    \/ ViewAddNote
    \/ ViewRemoveStack
    \/ EditTitle
    \/ AutoSyncTimerFires
    \/ SyncTick
    \/ TimerElapses

\* Time passes and the browser runs a timeout that is due; nothing obliges
\* the user to edit, to sign in or to sign out
SpecLive ==
    /\ InitSync
    /\ [][NextLive]_vars
    /\ WF_vars(TimerElapses)
    /\ WF_vars(AutoSyncTimerFires)

\* A handler has changed notes or areas, and the service is connected with
\* credentials configured and a note to publish
ChangeToSync ==
    /\ last.n > 0
    /\ last.changed
    /\ isGoogleDriveAvailable(config)
    /\ syncStatus.isConnected
    /\ Len(notes) > 0

\* syncAll has been called with the current notes and areas
CarriedBySyncAll ==
    \E i \in 1..Len(syncCalls) :
        syncCalls[i].notes = notes /\ syncCalls[i].areas = areas

\* C27: when the service is connected, credentials are configured and there
\* is a note, a change of notes or areas is eventually followed by a syncAll
\* call carrying that state or a later one (unless the service is
\* disconnected or the last note removed first), whether the change was
\* made before or after the connection was established.
C27_ChangeEventuallySynced ==
    ChangeToSync ~> (CarriedBySyncAll \/ ~ChangeToSync)

\* The same for the changes made while connected
C27_ChangeWhileConnectedSynced ==
    (ChangeToSync /\ burst.open) ~> (CarriedBySyncAll \/ ~ChangeToSync)

\* ------------------------------------------------------------------------
\* getOrCreateFolder and its cache (part_002 315-370), one resolution after
\* another within a session, for folder names and Drive ids that may hold
\* the '-' the cache key is built with
\* ------------------------------------------------------------------------
\* Names of nodes; ROOT_FOLDER_NAME itself holds a '-'
FolderNames == {"Notes", "Y", "Y-Notes"}

\* Ids Drive may give to folders
FolderIds == {"1x", "1x-Y", "2z"}

\* The resolutions cached so far in the session
CachedPairs == IF fn.pc \in {"resolved", "threw"} THEN fn.cached ELSE {}

\* The parent of a call: omitted, or the id an earlier call returned
ParentIds == {Null} \cup {e.id : e \in CachedPairs}

\* getOrCreateFolder(folderName, parentId).  On a miss Drive answers with
\* the folder it finds or creates for the pair, a folder no other pair has,
\* or the request fails and the error is rethrown
getOrCreateFolder(folderName, parentId) ==
    LET cacheKey == CacheKey(parentId, folderName)
        pair(id) == [parentId |-> parentId, folderName |-> folderName,
                     id |-> id]
    IN IF CacheHas(folderCache, cacheKey)
       THEN /\ fn' = [pc |-> "resolved", parentId |-> parentId,
                      folderName |-> folderName, hit |-> TRUE,
                      result |-> CacheGet(folderCache, cacheKey),
                      cached |-> CachedPairs]
            /\ UNCHANGED folderCache
       ELSE \/ \E folderId \in FolderIds \ {e.id : e \in CachedPairs} :
                 /\ folderCache' = CacheSet(folderCache, cacheKey, folderId)
                 /\ fn' = [pc |-> "resolved", parentId |-> parentId,
                           folderName |-> folderName, hit |-> FALSE,
                           result |-> folderId,
                           cached |-> CachedPairs \cup {pair(folderId)}]
            \/ /\ fn' = [pc |-> "threw", parentId |-> parentId,
                          folderName |-> folderName, hit |-> FALSE,
                          result |-> Null, cached |-> CachedPairs]
               /\ UNCHANGED folderCache

CacheFrame ==
    UNCHANGED <<appVars, clockVars, config, accessToken, syncStatus, syncRuns,
                syncCalls, drive, trace, ghostVars, viewVars>>

ResolveRootFolder ==
    (\E name \in FolderNames : getOrCreateFolder(name, Null)) /\ CacheFrame

ResolveSubfolder ==
    /\ \E name \in FolderNames : \E parentId \in ParentIds \ {Null} :
          getOrCreateFolder(name, parentId)
    /\ CacheFrame

NextCache ==
    \/ ResolveRootFolder
    \/ ResolveSubfolder

SpecCache == Init /\ [][NextCache]_vars

\* C28: a resolution for the pair (parentId-or-root, name) never returns a
\* folder id that was cached for another pair.
C28_CacheKeyedByPair ==
    fn.pc = "resolved" =>
        \A e \in fn.cached :
            e.id = fn.result =>
                e.parentId = fn.parentId /\ e.folderName = fn.folderName

\* ------------------------------------------------------------------------
\* The service publishing two notes of one notebook that have the same
\* title: handleAddNote names every new note 'New Note' (App.tsx 475)
\* ------------------------------------------------------------------------
\* The (notes, areas) pair after handleAddNote at time 0 and at time 1 on
\* the notebook 'anatomia-basica'
TwinSnapshots ==
    { [notes |-> PrependNote(newNote(1),
                     PrependNote(newNote(0), OneNotebookNotes)),
       areas |-> AddNoteUpdateNode(
                     AddNoteUpdateNode(OneNotebookAreas, "anatomia-basica",
                                       newNote(0).id),
                     "anatomia-basica", newNote(1).id)] }

TwinSync ==
    \E snap \in TwinSnapshots : handleManualSync(snap.notes, snap.areas)

NextTwins ==
    \/ SignInWhenIdle
    \/ DriveSignOut
    \/ TwinSync
    \/ FolderListResponds
    \/ FolderCreateResponds
    \/ FileListResponds
    \/ UploadResponds

SpecTwins == InitDrive /\ [][NextTwins]_vars

\* The invocation resolved and every upload it made was written
SyncSucceeded(r) == r.outcome = "resolved" /\ r.failed = <<>>

\* C29: after a successful syncAll every note that has a resolvable notebook
\* has a remote file of its own, holding its content; two distinct notes
\* are never published to the same file.
C29_OwnRemoteFile ==
    \A i \in DOMAIN syncRuns :
        SyncSucceeded(syncRuns[i]) =>
            \A j \in Publishable(syncRuns[i]) :
                \E f \in drive.files : f.note = syncRuns[i].notes[j].id

====
